---- MODULE Spec2Model ----
(***************************************************************************)
(* Model of the agroclimatic aggregation endpoints of SensoricaAgroptimum:  *)
(*   - Chill hours, delta/fixed model  (src/unnamed/part_001)               *)
(*   - Chill units, Utah model         (src/app/api/farms/[farmId]/chill-hours/route.ts) *)
(*   - GDD with custom range           (src/unnamed/part_000)               *)
(*   - GDD, campaign only              (src/app/api/farms/[farmId]/gdd/route.ts) *)
(*   - the model library of src/lib/db.ts                                   *)
(*                                                                         *)
(* Conventions.                                                            *)
(*  - Temperatures, base temperatures and every value the code rounds to    *)
(*    one decimal are integers counting tenths (7.2 degC is 72).  Values    *)
(*    that are not yet rounded are kept as exact fractions num/den.         *)
(*    Math.round(x) is floor(x + 1/2).                                      *)
(*  - A nullable value is a tuple: <<>> is NULL/null, <<v>> is the value v. *)
(*  - Names of columns and sensors are sequences of one-character strings,  *)
(*    so that toLowerCase, trim and includes are computed, not assumed.     *)
(*  - An instant is a number of seconds on the server's local wall clock;   *)
(*    calendar day d covers [d*86400, (d+1)*86400).  DATETIME values in the *)
(*    store carry no time zone and are compared as they are.  A calendar    *)
(*    day stands for its YYYY-MM-DD string: the strings are fixed-width, so *)
(*    their lexicographic order is the order of the day numbers.            *)
(*  - Days are numbered from January 1 of year 0 of the model, on a civil   *)
(*    calendar whose years all have 365 days (no leap day); a run observes  *)
(*    a window of MaxDay consecutive days of it.                           *)
(***************************************************************************)
EXTENDS Integers, Sequences, FiniteSets, TLC

VARIABLES
    db,         \* stored readings: set of [sensor, dt, temp]
    now,        \* the server's clock (local wall-clock seconds)
    tz,         \* the server's offset east of UTC, in seconds
    env,        \* HF_ALLOWED_SOIL_SENSORS: <<>> unset, else <<fields of the CSV>>
    request,    \* the request the last handler served
    locals,     \* the last handler's local variables at its return
    response    \* the last handler's response

vars == <<db, now, tz, env, request, locals, response>>

----------------------------------------------------------------------------
(* Bounds of the model *)

MaxDay == 4
MaxReadings == 3
MaxSensorReadings == 2
MaxProbes == 1

----------------------------------------------------------------------------
(* Generic helpers *)

Min2(a, b) == IF a < b THEN a ELSE b
Max2(a, b) == IF a > b THEN a ELSE b

RECURSIVE SumSeq(_)
SumSeq(s) == IF s = <<>> THEN 0 ELSE Head(s) + SumSeq(Tail(s))

RECURSIVE SumOf(_, _)
\* sum of f[x] over x in S
SumOf(f, S) ==
    IF S = {} THEN 0
    ELSE LET x == CHOOSE y \in S : TRUE IN f[x] + SumOf(f, S \ {x})

RECURSIVE AscSeq(_)
\* the elements of a finite set of integers, ascending
AscSeq(S) ==
    IF S = {} THEN <<>>
    ELSE LET m == CHOOSE y \in S : \A z \in S : y <= z IN <<m>> \o AscSeq(S \ {m})

Range(s) == { s[i] : i \in DOMAIN s }

\* Math.round(num/den) for den > 0: floor(num/den + 1/2)
RoundHalfUpMutant(num, den) == num \div den
RoundHalfUp(num, den) == (2 * num + den) \div (2 * den)

\* round1(n) = Math.round(n * 10) / 10, of the fraction num/den expressed in
\* units (not tenths); the result counts tenths
round1(num, den) == RoundHalfUp(10 * num, den)

----------------------------------------------------------------------------
(* IEEE 754 binary64, for the sums and means the handlers take of values    *)
(* that carry one decimal.  A double x near num/den, num an integer, is     *)
(* kept as num and the integer err with x = (num + err / 2^60) / den, den   *)
(* known from where x stands: 10 for a value or a sum of values in tenths,  *)
(* 10 * n for such a sum divided by n, n again for that times 10.           *)
(* A sum that is rounded to one decimal without being divided (the total   *)
(* of a sensor, a cumulative value) is kept in exact tenths: its double is  *)
(* nearer to its own decimal than to a half tenth.                          *)

Pow2(e) == 2^e

\* 2^e modulo K, for e up to 60
PowMod2(e, K) == ((Pow2(e \div 2) % K) * (Pow2(e - e \div 2) % K)) % K

\* the exponents t of the binades [2^t, 2^(t+1)) the values may lie in
Binades == (0 - 7)..15

\* whether (num + err / 2^60) / den >= 2^t, for num >= 0
AtLeastPow2(num, err, den, t) ==
    IF t >= 0
    THEN num > den * Pow2(t) \/ (num = den * Pow2(t) /\ err >= 0)
    ELSE num * Pow2(0 - t) > den \/ (num * Pow2(0 - t) = den /\ err >= 0)

\* Round to nearest, ties to even, of a value whose remainder over twice
\* the unit in the last place is rem2: below half the multiple under the
\* value is even, from half on it is odd.
roundTiesToEven(err, rem2, half) ==
    err - (rem2 % half)
        + (IF \/ 2 * (rem2 % half) > half
              \/ (2 * (rem2 % half) = half /\ rem2 >= half)
           THEN half ELSE 0)

\* The err of the double nearest to (num + err / 2^60) / K.  The value times
\* 2^60 is an integer X over K; the double is a multiple of its unit in the
\* last place 2^q / 2^60, and X modulo K * 2^(q+1) is the remainder to drop
\* together with the parity of the multiple below.
roundDoubleAt(num, err, K, q) ==
    roundTiesToEven(err,
                    (2 * Pow2(q) * (((num % K) * PowMod2(59 - q, K)) % K) + err)
                        % (2 * K * Pow2(q)),
                    K * Pow2(q))

\* q is t + 8 for the highest binade t at or below the value, which is the
\* number of binades at or below it.  Below the binades listed (a quotient
\* of sums that cancel) X is kept to 1 / 2^60, which Math.round of ten times
\* the quotient cannot tell.
roundDoubleAbs(num, err, den, m) ==
    roundDoubleAt(num, err, den * m,
                  Cardinality({ t \in Binades : AtLeastPow2(num, err, den * m, t) }))

\* -1 for a negative value (num + err / 2^60) / den, 1 otherwise
signOf(num, err) == IF num < 0 \/ (num = 0 /\ err < 0) THEN 0 - 1 ELSE 1

\* the err of the double nearest to ((num + err / 2^60) / den) / m, as a
\* value over den * m
roundDouble(num, err, den, m) ==
    signOf(num, err) * roundDoubleAbs(signOf(num, err) * num, signOf(num, err) * err, den, m)

\* the double of a number with one decimal, Math.round(x * 10) / 10
ToDouble(tenths) == [num |-> tenths, err |-> roundDouble(tenths, 0, 1, 10)]

\* a + b of two doubles over 10
addDouble(a, b) ==
    [num |-> a.num + b.num, err |-> roundDouble(a.num + b.num, a.err + b.err, 10, 1)]

\* Math.round(x): the integer at or below x + 0.5, for x = (num + err/2^60)/den
MathRound(num, err, den) ==
    IF (2 * num + den) % (2 * den) = 0 /\ err < 0
    THEN ((2 * num + den) \div (2 * den)) - 1
    ELSE (2 * num + den) \div (2 * den)

\* Math.round((sum / n) * 10), the tenths of Math.round((sum / n) * 10) / 10:
\* the quotient sum / n is a double over 10 * n, its product by 10 one over n
roundedMean(sum, n) ==
    MathRound(sum.num,
              roundDouble(sum.num, roundDouble(sum.num, sum.err, 10, n), n, 1),
              n)

RECURSIVE sumDoubles(_, _)
\* values.reduce((s, v) => s + v, 0) over values in tenths
sumDoubles(sum, values) ==
    IF values = <<>> THEN sum
    ELSE sumDoubles(addDouble(sum, ToDouble(Head(values))), Tail(values))

----------------------------------------------------------------------------
(* Strings as character sequences *)

UpperChars == <<"A","B","C","D","E","F","G","H","I","J","K","L","M",
                "N","O","P","Q","R","S","T","U","V","W","X","Y","Z">>
LowerChars == <<"a","b","c","d","e","f","g","h","i","j","k","l","m",
                "n","o","p","q","r","s","t","u","v","w","x","y","z">>

LowerChar(c) ==
    IF \E i \in DOMAIN UpperChars : UpperChars[i] = c
    THEN LowerChars[CHOOSE i \in DOMAIN UpperChars : UpperChars[i] = c]
    ELSE c

toLowerCase(s) == [i \in DOMAIN s |-> LowerChar(s[i])]

includes(s, sub) ==
    \E i \in 0..(Len(s) - Len(sub)) : SubSeq(s, i + 1, i + Len(sub)) = sub

RECURSIVE trimStart(_)
trimStart(s) == IF s # <<>> /\ Head(s) = " " THEN trimStart(Tail(s)) ELSE s

RECURSIVE trimEnd(_)
trimEnd(s) ==
    IF s # <<>> /\ s[Len(s)] = " " THEN trimEnd(SubSeq(s, 1, Len(s) - 1)) ELSE s

trim(s) == trimEnd(trimStart(s))

----------------------------------------------------------------------------
(* The store: one farm database, one table per sensor *)

SecondsPerDay == 86400

\* The tables of the farm database, as SHOW TABLES lists them
ShowTables == <<"p51", "mig", "p42", "p11", "p31", "p12">>

TableName(t) ==
    CASE t = "p11" -> <<"P","a","r","c","e","l","a"," ","1",".","1">>
      [] t = "p12" -> <<"P","a","r","c","e","l","a"," ","1",".","2">>
      [] t = "p31" -> <<"P","a","r","c","e","l","a"," ","3",".","1"," ","S","u","e","l","o">>
      [] t = "p42" -> <<"P","a","r","c","e","l","a"," ","4",".","2">>
      [] t = "p51" -> <<"P","a","r","c","e","l","a"," ","5",".","1"," ","S","u","e","l","o">>
      [] t = "mig" -> <<"m","i","g","r","a","t","i","o","n","s">>

c_datetime      == <<"d","a","t","e","t","i","m","e">>
c_temperature   == <<"t","e","m","p","e","r","a","t","u","r","e">>
c_Temperatura   == <<"T","e","m","p","e","r","a","t","u","r","a">>
c_humidity      == <<"h","u","m","i","d","i","t","y">>
c_conductivity  == <<"c","o","n","d","u","c","t","i","v","i","t","y">>
c_soil_moisture == <<"s","o","i","l","_","m","o","i","s","t","u","r","e">>
c_id            == <<"i","d">>

\* SHOW COLUMNS FROM t: the Field names of each table
ShowColumns(t) ==
    CASE t = "p11" -> <<c_id, c_datetime, c_temperature, c_humidity>>
      [] t = "p12" -> <<c_id, c_datetime, c_Temperatura, c_humidity>>
      [] t = "p31" -> <<c_id, c_datetime, c_temperature, c_conductivity, c_soil_moisture>>
      [] t = "p42" -> <<c_id, c_datetime, c_temperature, c_conductivity>>
      [] t = "p51" -> <<c_id, c_datetime, c_conductivity, c_soil_moisture>>
      [] t = "mig" -> <<c_id>>

farms == {"Casa_Olmo", "Finca_Antequera", "Valle_Hermoso", "Venta_la_Cuesta"}

\* collation rank of a character (lower-cased): space, punctuation, digits, letters
CharOrder == <<" ", "_", ".", "0","1","2","3","4","5","6","7","8","9">> \o LowerChars
CharRank(c) == CHOOSE i \in DOMAIN CharOrder : CharOrder[i] = LowerChar(c)

RECURSIVE localeCompareLess(_, _)
\* a.localeCompare(b, "es") < 0
localeCompareLess(a, b) ==
    IF a = <<>> THEN b # <<>>
    ELSE IF b = <<>> THEN FALSE
    ELSE IF CharRank(Head(a)) # CharRank(Head(b)) THEN CharRank(Head(a)) < CharRank(Head(b))
    ELSE localeCompareLess(Tail(a), Tail(b))

startsWith(s, pre) == Len(s) >= Len(pre) /\ SubSeq(s, 1, Len(pre)) = pre

\* getSensorsForFarm: SHOW TABLES, drop migrations and sqlite_*, sort by name
getSensorsForFarm ==
    LET filtered == SelectSeq(ShowTables, LAMBDA t :
                       /\ toLowerCase(TableName(t)) # <<"m","i","g","r","a","t","i","o","n","s">>
                       /\ ~startsWith(toLowerCase(TableName(t)), <<"s","q","l","i","t","e","_">>))
    IN SortSeq(filtered, LAMBDA a, b : localeCompareLess(TableName(a), TableName(b)))

Reading(s, dt, temp) == [sensor |-> s, dt |-> dt, temp |-> temp]

\* DATE(dt)
DATE(dt) == dt \div SecondsPerDay

----------------------------------------------------------------------------
(* Column classifier *)

RECURSIVE findIndex(_, _, _)
\* Array.prototype.findIndex from position i on; 0 stands for -1
findIndex(lower, cand, i) ==
    IF i > Len(lower) THEN 0
    ELSE IF lower[i] = cand \/ includes(lower[i], cand) THEN i
    ELSE findIndex(lower, cand, i + 1)

RECURSIVE pickColumn(_, _)
\* first candidate, in candidate order, that some column equals or contains
pickColumn(columns, candidates) ==
    IF candidates = <<>> THEN <<>>
    ELSE LET lower == [i \in DOMAIN columns |-> toLowerCase(columns[i])]
             idx   == findIndex(lower, toLowerCase(Head(candidates)), 1)
         IN IF idx >= 1 THEN <<columns[idx]>> ELSE pickColumn(columns, Tail(candidates))

TempCandidates == << <<"t","e","m","p","e","r","a","t","u","r","e">>, <<"t","e","m","p","e","r","a","t","u","r","a">>, <<"t","e","m","p">> >>
DateCandidates == << <<"d","a","t","e","t","i","m","e">>, <<"f","e","c","h","a">>, <<"t","i","m","e","s","t","a","m","p">>, <<"d","a","t","e">>, <<"t","i","m","e">> >>

soilSignals == { <<"c","o","n","d","u","c","t","i","v","i","t","y">>,
                 <<"c","o","n","d","u","c","t","i","v","i","d","a","d">>,
                 <<"e","c">>,
                 <<"e","c","e">>,
                 <<"s","o","i","l">>,
                 <<"s","o","i","l","_","m","o","i","s","t","u","r","e">>,
                 <<"s","o","i","l","m","o","i","s","t","u","r","e">>,
                 <<"v","w","c">>,
                 <<"s","m","t","c">>,
                 <<"m","o","i","s","t","u","r","e">>,
                 <<"h","u","m","e","d","a","d","_","s","u","e","l","o">>,
                 <<"w","a","t","e","r","_","c","o","n","t","e","n","t">> }

isSoilSensorByColumnsMutant(columnNames) == FALSE
isSoilSensorByColumns(columnNames) ==
    LET lower == [i \in DOMAIN columnNames |-> toLowerCase(columnNames[i])]
    IN \E sig \in soilSignals : \E i \in DOMAIN lower :
           lower[i] = sig \/ includes(lower[i], sig)

\* HF_ALLOWED_SOIL_SENSORS split on ",", trimmed, empty fields dropped;
\* ["Parcela 4.2"] when the variable is unset or blank (a value with a comma
\* in it is not blank)
getAllowedSoilSensorsAllowlist ==
    IF env # <<>> /\ (Len(env[1]) > 1 \/ (Len(env[1]) = 1 /\ trim(env[1][1]) # <<>>))
    THEN SelectSeq([i \in DOMAIN env[1] |-> trim(env[1][i])], LAMBDA a : a # <<>>)
    ELSE << <<"P","a","r","c","e","l","a"," ","4",".","2">> >>

isAllowedSoilSensor(sensorName) ==
    LET allowlist == getAllowedSoilSensorsAllowlist
        s == toLowerCase(trim(sensorName))
    IN \E i \in DOMAIN allowlist : toLowerCase(trim(allowlist[i])) = s

\* what the aggregation endpoints derive from the field names of a sensor
ClassifyColumns(columnNames) ==
    [tempColumn |-> pickColumn(columnNames, TempCandidates),
     dateColumn |-> pickColumn(columnNames, DateCandidates),
     soilByCols |-> isSoilSensorByColumns(columnNames)]

\* The schema of the store does not change: what the classifier answers for
\* each table is computed once
Classified == [t \in Range(ShowTables) |-> ClassifyColumns(ShowColumns(t))]

----------------------------------------------------------------------------
(* Calendar *)

\* the lengths of the months, January to December
MonthDays == <<31, 28, 31, 30, 31, 30, 31, 31, 30, 31, 30, 31>>

\* the number of days of a year that precede its month m (0 is January)
RECURSIVE DaysBeforeMonth(_)
DaysBeforeMonth(m) == IF m = 0 THEN 0 ELSE DaysBeforeMonth(m - 1) + MonthDays[m]

\* the day number of a civil date (month from 0, day of the month from 1)
DayNumber(year, month, day) == year * DaysBeforeMonth(12) + DaysBeforeMonth(month) + (day - 1)

\* local midnight of a calendar day
MidnightOf(day) == day * SecondsPerDay

\* new Date(year, month, day): local midnight of a civil date
NewDate(year, month, day) == MidnightOf(DayNumber(year, month, day))

\* d.getFullYear() and d.getMonth(), in local time
getFullYear(d) == (d \div SecondsPerDay) \div DaysBeforeMonth(12)

getMonth(d) ==
    LET dayOfYear == (d \div SecondsPerDay) % DaysBeforeMonth(12)
    IN CHOOSE m \in 0..11 : DaysBeforeMonth(m) <= dayOfYear /\ dayOfYear < DaysBeforeMonth(m + 1)

\* d.toISOString().split("T")[0]: the UTC calendar day of an instant
ymd(d) == (d - tz) \div SecondsPerDay

clampEndToToday(endYmd) ==
    LET today == ymd(now) IN IF endYmd > today THEN today ELSE endYmd

getDate(d) ==
    LET dayOfYear == (d \div SecondsPerDay) % DaysBeforeMonth(12)
    IN dayOfYear - DaysBeforeMonth(getMonth(d)) + 1

\* The text of a date parameter.  <<d>> is the YYYY-MM-DD text of calendar day
\* d; <<dd, mm>> is the text dd/mm, which has no YYYY-MM-DD shape; <<y, m, d>>
\* is a text of that shape whose month m is not a month, as 2025-13-45.
\* Inside a handler a date that came from the calendar is its day number.
isDateText(t) == Len(t) = 1

\* /^\d{4}-\d{2}-\d{2}$/.test(d)
isValidISODate(d) == Len(d) \in {1, 3}

\* a < b for a parameter text a and the YYYY-MM-DD text of day b, as JavaScript
\* orders strings (code unit by code unit; years are written 20yy, and "/"
\* sorts before every digit)
textBeforeDay(a, b) ==
    IF Len(a) = 1 THEN a[1] < b
    ELSE IF Len(a) = 2 THEN a[1] <= 20
    ELSE LET y == getFullYear(MidnightOf(b))
             m == getMonth(MidnightOf(b)) + 1
             d == getDate(MidnightOf(b))
         IN a[1] < y \/ (a[1] = y /\ (a[2] < m \/ (a[2] = m /\ a[3] < d)))

textIsDay(a, b) == Len(a) = 1 /\ a[1] = b

\* what a handler holds after reading a text: the day number of a date text,
\* the text itself otherwise
dateOf(t) == IF isDateText(t) THEN t[1] ELSE t

\* year: <<>> when the request names no year (or one that parses to NaN or
\* 0, which `year || ...` replaces alike), else <<y>>
getChillHoursPeriod(year) ==
    LET currentYear == IF year # <<>> THEN year[1] ELSE getFullYear(now)
        startYear   == IF getMonth(now) < 10 THEN currentYear - 1 ELSE currentYear
    IN [start |-> NewDate(startYear, 10, 1), end |-> NewDate(startYear + 1, 2, 1)]

getGDDPeriod(year) ==
    LET currentYear == IF year # <<>> THEN year[1] ELSE getFullYear(now)
    IN [start |-> NewDate(currentYear, 3, 1), end |-> NewDate(currentYear, 8, 30)]

\* addDaysISO(dateISO, days)
addDaysISO(dateISO, days) == dateISO + days

\* 'YYYY-MM-DD 00:00:00' and 'YYYY-MM-DD' compared with a DATETIME
DayStart(day) == day * SecondsPerDay

----------------------------------------------------------------------------
(* SQL and JavaScript primitives shared by the endpoints *)

\* Number(v) of a nullable column value: Number(null) is 0
Number(v) == IF v = <<>> THEN 0 ELSE v[1]

\* the non-NULL values of a set of nullable values
NonNull(S) == { v[1] : v \in { w \in S : w # <<>> } }

\* MIN(col), MAX(col): NULL values are ignored, NULL when there is none
SqlMIN(S) ==
    IF NonNull(S) = {} THEN <<>>
    ELSE << CHOOSE m \in NonNull(S) : \A x \in NonNull(S) : m <= x >>
SqlMAX(S) ==
    IF NonNull(S) = {} THEN <<>>
    ELSE << CHOOSE m \in NonNull(S) : \A x \in NonNull(S) : m >= x >>

\* rows of a table whose date column is in [lo, hi)
RowsHalfOpen(sensor, lo, hi) ==
    { r \in db : r.sensor = sensor /\ r.dt >= lo /\ r.dt < hi }

\* rows of a table whose date column is BETWEEN lo AND hi (both inclusive)
RowsBetween(sensor, lo, hi) ==
    { r \in db : r.sensor = sensor /\ r.dt >= lo /\ r.dt <= hi }

\* the days of GROUP BY DATE(dt) ... ORDER BY day ASC
GroupDays(rows) == AscSeq({ DATE(r.dt) : r \in rows })

RowsOfDay(rows, day) == { r \in rows : DATE(r.dt) = day }

\* a JavaScript Map, as its entries in insertion order
mapHas(m, k) == \E i \in DOMAIN m : m[i].key = k
mapGet(m, k) == m[CHOOSE i \in DOMAIN m : m[i].key = k].value
mapSet(m, k, v) ==
    IF mapHas(m, k)
    THEN [i \in DOMAIN m |-> IF m[i].key = k THEN [key |-> k, value |-> v] ELSE m[i]]
    ELSE Append(m, [key |-> k, value |-> v])

\* Array.from(map.entries()).sort((a, b) => a[0].localeCompare(b[0]))
sortEntriesMutant(m) == m
sortEntries(m) == SortSeq(m, LAMBDA a, b : a.key < b.key)

\* a request parameter whose query may fail: the faults of one request
Fails(faults, sensor, stage) == <<sensor, stage>> \in faults

\* The text of a numeric parameter: <<n>> is the text of the number n (in
\* tenths where the parameter is a temperature), any longer tuple is a text
\* that Number() turns into NaN.  Number.isFinite(Number(text)):
isFiniteNumberText(text) == Len(text) = 1

\* A text that names no date, bound to a `?` that the statement compares with
\* a DATETIME column.  What the database makes of it is not in this
\* repository; the request carries the outcome (onInvalidDate): the statement
\* fails ("error"), the comparison is NULL and no row passes ("null"), or the
\* text counts as the zero date ("zero").  DATE_ADD of such a text is NULL.
sqlLowerBound(text, onInvalidDate) ==
    IF isDateText(text) THEN <<DayStart(text[1])>>
    ELSE IF onInvalidDate = "zero" THEN <<0>> ELSE <<>>

sqlFaults(faults, sensors, texts, onInvalidDate) ==
    IF onInvalidDate = "error" /\ \E i \in DOMAIN texts : ~isDateText(texts[i])
    THEN faults \cup { <<sensors[i], "daily">> : i \in DOMAIN sensors }
    ELSE faults

\* the half-open range [lo, hi) of instants of two nullable bounds
sqlRange(lo, hi) ==
    IF lo = <<>> \/ hi = <<>> THEN [lo |-> 0, hi |-> 0] ELSE [lo |-> lo[1], hi |-> hi[1]]

\* connections: the database connections the handler has opened, in the order
\* of opening, each with who opened it and how often it was ended
NoLocals == [perSensorSeries |-> <<>>, results |-> <<>>, sensors |-> <<>>, queried |-> FALSE,
             connections |-> <<>>]
NoResponse == [route |-> "none", status |-> 0]
NoRequest == [route |-> "none"]

listingConnectionsMutant(req) ==
    IF req.sensor # <<>> \/ Fails(req.faults, "getSensorsForFarm", "connect") THEN <<>>
    ELSE <<[by |-> "getSensorsForFarm",
            ended |-> IF Fails(req.faults, "getSensorsForFarm", "query") THEN 0 ELSE 1]>>

\* getSensorsForFarm of src/lib/db.ts, as to its connection: it opens one of
\* its own unless getConnection throws, and ends it in its finally block
\* whether SHOW TABLES answers or throws.  It is called only for a request
\* that names no sensor.
listingConnections(req) ==
    IF req.sensor # <<>> \/ Fails(req.faults, "getSensorsForFarm", "connect") THEN <<>>
    ELSE <<[by |-> "getSensorsForFarm", ended |-> 1]>>

\* The try, catch and finally blocks of the four handlers around the work of
\* a request that passed validation, run: an exception of getSensorsForFarm
\* or of the handler's own getConnection is answered with 500, and then the
\* handler has no connection of its own to end; otherwise the handler's
\* connection is ended once in the finally block, after the response is built.
withConnection(req, route, run) ==
    LET listing == listingConnections(req)
        failed  == [locals |-> [NoLocals EXCEPT !.connections = listing],
                    response |-> [route |-> route, status |-> 500]]
    IN IF /\ req.sensor = <<>>
          /\ \/ Fails(req.faults, "getSensorsForFarm", "connect")
             \/ Fails(req.faults, "getSensorsForFarm", "query")
       THEN failed
       ELSE IF Fails(req.faults, "GET", "connect") THEN failed
       ELSE [locals |-> [connections |-> listing \o <<[by |-> "GET", ended |-> 1]>>]
                        @@ run.locals,
             response |-> run.response]

----------------------------------------------------------------------------
(* GDD with campaign or custom range: src/unnamed/part_000 *)

gdd450 == 4500
gdd900 == 9000

\* daily GDD of one row of the MIN/MAX query
gddDailyMutant(tmin, tmax, baseTemp) == round1(Number(tmin) + Number(tmax) - 2 * baseTemp, 20)
gddDaily(tmin, tmax, baseTemp) ==
    round1(Max2(0, Number(tmin) + Number(tmax) - 2 * baseTemp), 20)

\* the rows of the daily MIN/MAX query, mapped to {date, daily}
gddDailySeries(rows, baseTemp) ==
    LET days == GroupDays(rows)
    IN [i \in DOMAIN days |->
          LET temps == { r.temp : r \in RowsOfDay(rows, days[i]) }
          IN [date |-> days[i], daily |-> gddDaily(SqlMIN(temps), SqlMAX(temps), baseTemp)]]

\* one iteration of the per-sensor loop
gddSensorStep(acc, sensor, rows, baseTemp, faults) ==
    IF Fails(faults, sensor, "columns") THEN acc
    ELSE LET tempColumn  == Classified[sensor].tempColumn
             dateColumn  == Classified[sensor].dateColumn
         IN IF tempColumn = <<>> \/ dateColumn = <<>> THEN acc
            ELSE IF Fails(faults, sensor, "daily") THEN acc
            ELSE LET daily == gddDailySeries(rows, baseTemp)
                     total == SumSeq([i \in DOMAIN daily |-> daily[i].daily])
                 IN [perSensorSeries |-> Append(acc.perSensorSeries, daily),
                     results |-> Append(acc.results,
                                   [sensor |-> sensor,
                                    gdd |-> round1(total, 10),
                                    daysWithData |-> Len(daily)])]

RECURSIVE mergeSerie(_, _)
\* for (const p of serie) { cur.sum += p.daily; cur.count += 1 }
mergeSerie(merged, serie) ==
    IF serie = <<>> THEN merged
    ELSE LET p   == Head(serie)
             cur == IF mapHas(merged, p.date) THEN mapGet(merged, p.date)
                    ELSE [sum |-> ToDouble(0), count |-> 0]
         IN mergeSerie(mapSet(merged, p.date,
                              [sum |-> addDouble(cur.sum, ToDouble(p.daily)),
                               count |-> cur.count + 1]),
                       Tail(serie))

RECURSIVE mergeAll(_, _)
mergeAll(merged, perSensorSeries) ==
    IF perSensorSeries = <<>> THEN merged
    ELSE mergeAll(mergeSerie(merged, Head(perSensorSeries)), Tail(perSensorSeries))

\* Math.round((v.sum / Math.max(1, v.count)) * 10) / 10
meanOfEntryMutant(v) == roundedMean(v.sum, 1)
meanOfEntry(v) == roundedMean(v.sum, Max2(1, v.count))

seriesDailyMean(perSensorSeries) ==
    LET sorted == sortEntries(mergeAll(<<>>, perSensorSeries))
    IN [i \in DOMAIN sorted |->
          [date |-> sorted[i].key, daily |-> meanOfEntry(sorted[i].value)]]

RECURSIVE cumulate(_, _)
\* cum = round(cum + d.daily); {...d, cumulative: cum}
cumulateMutant(seriesDaily, cum) ==
    [i \in DOMAIN seriesDaily |->
        [date |-> seriesDaily[i].date, daily |-> seriesDaily[i].daily,
         cumulative |-> seriesDaily[i].daily]]
cumulate(seriesDaily, cum) ==
    IF seriesDaily = <<>> THEN <<>>
    ELSE LET d == Head(seriesDaily)
             c == round1(cum + d.daily, 10)
         IN <<[date |-> d.date, daily |-> d.daily, cumulative |-> c]>>
            \o cumulate(Tail(seriesDaily), c)

\* series.find(pred) || null, for the predicates the endpoints use
findFirstAtLeastMutant(series, threshold) ==
    IF \E i \in DOMAIN series : series[i].cumulative >= threshold
    THEN << series[CHOOSE i \in DOMAIN series :
                /\ series[i].cumulative >= threshold
                /\ \A j \in DOMAIN series : series[j].cumulative >= threshold => j <= i] >>
    ELSE <<>>
findFirstAtLeast(series, threshold) ==
    IF \E i \in DOMAIN series : series[i].cumulative >= threshold
    THEN << series[CHOOSE i \in DOMAIN series :
                /\ series[i].cumulative >= threshold
                /\ \A j \in 1..(i - 1) : series[j].cumulative < threshold] >>
    ELSE <<>>

findDate(series, date) ==
    IF \E i \in DOMAIN series : series[i].date = date
    THEN << series[CHOOSE i \in DOMAIN series :
                /\ series[i].date = date
                /\ \A j \in 1..(i - 1) : series[j].date # date] >>
    ELSE <<>>

milestoneMutant(hit) == [reached |-> FALSE, date |-> <<>>]

milestone(hit) ==
    IF hit # <<>> THEN [reached |-> TRUE, date |-> <<hit[1].date>>]
    ELSE [reached |-> FALSE, date |-> <<>>]

RECURSIVE gddLoop(_, _, _, _, _, _)
gddLoop(acc, sensors, lo, hi, baseTemp, faults) ==
    IF sensors = <<>> THEN acc
    ELSE gddLoop(gddSensorStep(acc, Head(sensors), RowsHalfOpen(Head(sensors), lo, hi),
                               baseTemp, faults),
                 Tail(sensors), lo, hi, baseTemp, faults)

\* the handler's locals and response for a request that passed validation
\* startDate is a text, endDate a day
gddRun(req, baseTemp, startDate, endDate) ==
    LET endExclusive == addDaysISO(endDate, 1)
        sensors == IF req.sensor # <<>> THEN <<req.sensor[1]>> ELSE getSensorsForFarm
        range   == sqlRange(sqlLowerBound(startDate, req.onInvalidDate),
                            <<DayStart(endExclusive)>>)
        todayDate == ymd(now)
        json(sensorList, acc, series, totalGDD, avgGDD, hit450, hit900, todayPoint) ==
            withConnection(req, "gdd",
              [locals |-> [perSensorSeries |-> acc.perSensorSeries, results |-> acc.results,
                           sensors |-> sensorList, queried |-> TRUE],
               response |->
                 [route |-> "gdd", status |-> 200,
                  period |-> [start |-> dateOf(startDate), end |-> endDate],
                  range |-> req.range, baseTemp |-> baseTemp,
                  milestones |-> [gdd450 |-> milestone(hit450),
                                  gdd900 |-> milestone(hit900)],
                  sensors |-> acc.results,
                  series |-> series,
                  today |-> todayPoint,
                  summary |-> [totalGDD |-> totalGDD, avgGDD |-> avgGDD,
                               sensorCount |-> Len(acc.results),
                               window450_900 |-> (totalGDD >= gdd450 /\ totalGDD < gdd900),
                               remainingTo450 |-> Max2(0, round1(gdd450 - totalGDD, 10)),
                               remainingTo900 |-> Max2(0, round1(gdd900 - totalGDD, 10))]]])
        \* totalGDD, avgGDD, hit450, hit900 and todayPoint of the merged series
        summarise(sensorList, acc, series, today) ==
            json(sensorList, acc, series,
                 IF series # <<>> THEN series[Len(series)].cumulative ELSE 0,
                 IF Len(acc.results) > 0
                 THEN roundedMean(sumDoubles(ToDouble(0), [i \in DOMAIN acc.results |->
                                                                acc.results[i].gdd]),
                                  Len(acc.results))
                 ELSE 0,
                 findFirstAtLeast(series, gdd450),
                 findFirstAtLeast(series, gdd900),
                 IF today # <<>> THEN today
                 ELSE IF series # <<>> THEN <<series[Len(series)]>> ELSE <<>>)
        \* series of the sensors' series
        merge(sensorList, acc) ==
            LET series == cumulate(seriesDailyMean(acc.perSensorSeries), 0)
            IN summarise(sensorList, acc, series, findDate(series, todayDate))
        \* the loop over the sensors, each queried from lo to hi
        query(sensorList, lo, hi) ==
            merge(sensorList,
                  gddLoop([perSensorSeries |-> <<>>, results |-> <<>>], sensorList, lo, hi,
                          baseTemp,
                          sqlFaults(req.faults, sensorList, <<startDate>>,
                                    req.onInvalidDate)))
    IN query(sensors, range.lo, range.hi)

\* GET of part_000.  req: farm, sensor (<<>> or <<table>>), year (<<>> or
\* <<y>>), baseTemp (<<>> or a number text), range, startDate and endDate
\* (<<>> or a date parameter text), faults, onInvalidDate.
\* addDaysISO(endDate, 1) runs before the try block: of a text that names no
\* date, toISOString() throws a RangeError that nothing catches.
gddGET(req) ==
    IF req.baseTemp # <<>> /\ ~isFiniteNumberText(req.baseTemp)
    THEN [locals |-> NoLocals, response |-> [route |-> "gdd", status |-> 400]]
    ELSE IF req.farm \notin farms
    THEN [locals |-> NoLocals, response |-> [route |-> "gdd", status |-> 400]]
    ELSE
    LET baseTemp == IF req.baseTemp # <<>> THEN req.baseTemp[1] ELSE 72
    IN IF /\ req.range = "custom"
          /\ \/ req.startDate = <<>> \/ req.endDate = <<>>
             \/ ~isValidISODate(req.startDate) \/ ~isValidISODate(req.endDate)
       THEN [locals |-> NoLocals, response |-> [route |-> "gdd", status |-> 400]]
       ELSE IF req.range = "custom" /\ ~isDateText(req.endDate)
       THEN [locals |-> NoLocals, response |-> [route |-> "gdd", status |-> 500]]
       ELSE gddRun(req, baseTemp,
                   IF req.range = "custom" THEN req.startDate
                   ELSE <<ymd(getGDDPeriod(req.year).start)>>,
                   IF req.range = "custom" THEN req.endDate[1]
                   ELSE ymd(getGDDPeriod(req.year).end))

----------------------------------------------------------------------------
(* GDD, campaign only: src/app/api/farms/[farmId]/gdd/route.ts *)

RECURSIVE gddLegacyLoop(_, _, _, _, _)
gddLegacyLoop(acc, sensors, lo, hi, req) ==
    IF sensors = <<>> THEN acc
    ELSE gddLegacyLoop(gddSensorStep(acc, Head(sensors), RowsBetween(Head(sensors), lo, hi),
                                     IF req.baseTemp = <<>> THEN 70
                                     ELSE IF isFiniteNumberText(req.baseTemp)
                                     THEN req.baseTemp[1] ELSE 0,
                                     req.faults),
                       Tail(sensors), lo, hi, req)

\* the value NaN
NaN == <<"NaN">>

\* With baseTemp NaN every Math.max(0, avg - baseTemp) is NaN, and NaN stays
\* NaN through Math.round, the sums and the divisions: every value computed
\* from at least one day is NaN; a sum over no day is still 0.
nanSerie(serie) == [i \in DOMAIN serie |-> [serie[i] EXCEPT !.daily = NaN]]

nanResult(r) == IF r.daysWithData > 0 THEN [r EXCEPT !.gdd = NaN] ELSE r

nanSeries(series) ==
    [i \in DOMAIN series |-> [series[i] EXCEPT !.daily = NaN, !.cumulative = NaN]]

nanRun(run) ==
    LET results == [i \in DOMAIN run.locals.results |-> nanResult(run.locals.results[i])]
        series  == nanSeries(run.response.series)
        anyDay  == \E i \in DOMAIN results : results[i].daysWithData > 0
    IN [locals |-> [run.locals EXCEPT
                      !.perSensorSeries = [i \in DOMAIN @ |-> nanSerie(@[i])],
                      !.results = results],
        response |-> [run.response EXCEPT
                        !.baseTemp = NaN,
                        !.sensors = results,
                        !.series = series,
                        !.today = IF @ = <<>> THEN <<>> ELSE <<[@[1] EXCEPT !.daily = NaN,
                                                                            !.cumulative = NaN]>>,
                        !.summary = [@ EXCEPT
                                       !.totalGDD = IF series # <<>> THEN NaN ELSE 0,
                                       !.avgGDD = IF anyDay THEN NaN ELSE 0]]]

\* req: farm, sensor, year, baseTemp (<<>> or a number text), faults.
\* baseTemp is Number(text) when the parameter is given, finite or not.
gddLegacyGET(req) ==
    IF req.farm \notin farms
    THEN [locals |-> NoLocals, response |-> [route |-> "gddLegacy", status |-> 400]]
    ELSE
    LET baseTemp == IF req.baseTemp = <<>> THEN 70
                    ELSE IF isFiniteNumberText(req.baseTemp) THEN req.baseTemp[1] ELSE 0
        startDate == ymd(getGDDPeriod(req.year).start)
        endDate   == ymd(getGDDPeriod(req.year).end)
        sensors == IF req.sensor # <<>> THEN <<req.sensor[1]>> ELSE getSensorsForFarm
        json(run) ==
            withConnection(req, "gddLegacy",
                           IF req.baseTemp # <<>> /\ ~isFiniteNumberText(req.baseTemp)
                           THEN nanRun(run) ELSE run)
        \* totalGDD and avgGDD of the merged series
        summarise(sensorList, acc, series) ==
            json([locals |-> [perSensorSeries |-> acc.perSensorSeries,
                              results |-> acc.results,
                              sensors |-> sensorList, queried |-> TRUE],
                  response |->
                    [route |-> "gddLegacy", status |-> 200,
                     period |-> [start |-> startDate, end |-> endDate],
                     baseTemp |-> baseTemp,
                     sensors |-> acc.results,
                     series |-> series,
                     today |-> findDate(series, ymd(now)),
                     summary |->
                       [totalGDD |-> IF series # <<>> THEN series[Len(series)].cumulative
                                     ELSE 0,
                        avgGDD |-> IF Len(acc.results) > 0
                                   THEN roundedMean(
                                          sumDoubles(ToDouble(0),
                                                     [i \in DOMAIN acc.results |->
                                                        acc.results[i].gdd]),
                                          Len(acc.results))
                                   ELSE 0,
                        sensorCount |-> Len(acc.results)]]])
        \* series of the sensors' series
        merge(sensorList, acc) ==
            summarise(sensorList, acc, cumulate(seriesDailyMean(acc.perSensorSeries), 0))
    IN merge(sensors,
             gddLegacyLoop([perSensorSeries |-> <<>>, results |-> <<>>], sensors,
                           DayStart(startDate), DayStart(endDate), req))

----------------------------------------------------------------------------
(* The model library of src/lib/db.ts *)

\* Utah units per hour of a temperature, in tenths of a unit
utahHourlyUnits(Tc) ==
    IF Tc < 14 THEN 0
    ELSE IF Tc < 24 THEN 5
    ELSE IF Tc < 91 THEN 10
    ELSE IF Tc < 124 THEN 5
    ELSE IF Tc < 159 THEN 0
    ELSE IF Tc < 180 THEN -5
    ELSE -10

\* utahUnitsForSample: perHour * (sampleMinutes / 60), as the fraction
\* num/den of a unit
utahUnitsForSample(Tc, sampleMinutes) ==
    [num |-> utahHourlyUnits(Tc) * sampleMinutes, den |-> 600]

\* calculateUtahChillUnits: non-finite values are skipped; total rounded to
\* one decimal (tenths)
calculateUtahChillUnits(temperatures, sampleMinutes) ==
    round1(SumSeq([i \in DOMAIN temperatures |->
                     IF temperatures[i] = <<>> THEN 0
                     ELSE utahUnitsForSample(temperatures[i][1], sampleMinutes).num]),
           600)

\* calculateChillHours: samples in [0, 7.2] times sampleMinutes/60, rounded
calculateChillHours(temperatures, sampleMinutes) ==
    LET chillSamples == Cardinality({ i \in DOMAIN temperatures :
                            temperatures[i] >= 0 /\ temperatures[i] <= 72 })
    IN round1(chillSamples * sampleMinutes, 60)

\* calculateGDD: sum over days of max(0, avg - base), rounded at the end
calculateGDD(minTemps, maxTemps, baseTemp) ==
    LET n == Min2(Len(minTemps), Len(maxTemps))
    IN round1(SumSeq([i \in 1..n |-> Max2(0, minTemps[i] + maxTemps[i] - 2 * baseTemp)]), 20)

----------------------------------------------------------------------------
(* Chill units, Utah model: src/app/api/farms/[farmId]/chill-hours/route.ts *)

\* the CASE of utahUnitsSQL on a nullable column value, in tenths of a unit:
\* every comparison with NULL is unknown, so NULL falls to ELSE
utahUnitsSQLMutant(temp) ==
    IF temp # <<>> /\ temp[1] < 14 THEN 0
    ELSE IF temp # <<>> /\ temp[1] < 24 THEN 5
    ELSE IF temp # <<>> /\ temp[1] <= 91 THEN 10
    ELSE IF temp # <<>> /\ temp[1] < 124 THEN 5
    ELSE IF temp # <<>> /\ temp[1] < 159 THEN 0
    ELSE IF temp # <<>> /\ temp[1] < 180 THEN -5
    ELSE -10
utahUnitsSQL(temp) ==
    IF temp # <<>> /\ temp[1] < 14 THEN 0
    ELSE IF temp # <<>> /\ temp[1] < 24 THEN 5
    ELSE IF temp # <<>> /\ temp[1] < 91 THEN 10
    ELSE IF temp # <<>> /\ temp[1] < 124 THEN 5
    ELSE IF temp # <<>> /\ temp[1] < 159 THEN 0
    ELSE IF temp # <<>> /\ temp[1] < 180 THEN -5
    ELSE -10

\* sampleMinutes of the Utah endpoint: Math.max(1, Number(raw)), 10 when absent
utahSampleMinutes(raw) == IF raw = <<>> THEN 10 ELSE Max2(1, raw[1])

\* SUM((CASE ...) * ?) of one day, with ? = sampleMinutes / 60: num/600 units
utahDayUnits(rows, sampleMinutes) ==
    SumOf([r \in rows |-> utahUnitsSQL(r.temp) * sampleMinutes], rows)

\* raw = round(units); safe = allowNegative ? raw : max(0, raw)
utahClampMutant(raw, allowNegative) == raw
utahClamp(raw, allowNegative) == IF allowNegative THEN raw ELSE Max2(0, raw)

utahDailySeries(rows, sampleMinutes, allowNegative) ==
    LET days == GroupDays(rows)
    IN [i \in DOMAIN days |->
          [date |-> days[i],
           dailyUnits |-> utahClamp(round1(utahDayUnits(RowsOfDay(rows, days[i]),
                                                        sampleMinutes), 600),
                                    allowNegative)]]

utahSensorStep(acc, sensor, rows, req) ==
    IF Fails(req.faults, sensor, "columns") THEN acc
    ELSE LET tempColumn  == Classified[sensor].tempColumn
             dateColumn  == Classified[sensor].dateColumn
         IN IF tempColumn = <<>> \/ dateColumn = <<>> THEN acc
            ELSE IF Fails(req.faults, sensor, "daily") THEN acc
            ELSE LET daily == utahDailySeries(rows, utahSampleMinutes(req.sampleMinutes),
                                              req.allowNegative)
                     totalUnits == SumSeq([i \in DOMAIN daily |-> daily[i].dailyUnits])
                     pushed == Append(acc.perSensorSeries, daily)
                 IN IF Fails(req.faults, sensor, "count")
                    THEN [perSensorSeries |-> pushed, results |-> acc.results]
                    ELSE [perSensorSeries |-> pushed,
                          results |-> Append(acc.results,
                                       [sensor |-> sensor,
                                        chillUnits |-> round1(totalUnits, 10),
                                        dataPoints |-> Cardinality(rows)])]

RECURSIVE utahLoop(_, _, _, _, _)
utahLoop(acc, sensors, lo, hi, req) ==
    IF sensors = <<>> THEN acc
    ELSE utahLoop(utahSensorStep(acc, Head(sensors), RowsBetween(Head(sensors), lo, hi), req),
                  Tail(sensors), lo, hi, req)

RECURSIVE mergeSerieUnits(_, _)
\* for (const p of serie) { cur.sum += p.dailyUnits; cur.count += 1 }
mergeSerieUnits(merged, serie) ==
    IF serie = <<>> THEN merged
    ELSE LET p   == Head(serie)
             cur == IF mapHas(merged, p.date) THEN mapGet(merged, p.date)
                    ELSE [sum |-> ToDouble(0), count |-> 0]
         IN mergeSerieUnits(mapSet(merged, p.date,
                                   [sum |-> addDouble(cur.sum, ToDouble(p.dailyUnits)),
                                    count |-> cur.count + 1]),
                            Tail(serie))

RECURSIVE mergeAllUnits(_, _)
mergeAllUnits(merged, perSensorSeries) ==
    IF perSensorSeries = <<>> THEN merged
    ELSE mergeAllUnits(mergeSerieUnits(merged, Head(perSensorSeries)), Tail(perSensorSeries))

seriesDailyUnitsMean(perSensorSeries) ==
    LET sorted == sortEntries(mergeAllUnits(<<>>, perSensorSeries))
    IN [i \in DOMAIN sorted |->
          [date |-> sorted[i].key, dailyUnits |-> meanOfEntry(sorted[i].value)]]

RECURSIVE cumulateUnits(_, _)
cumulateUnits(seriesDaily, cum) ==
    IF seriesDaily = <<>> THEN <<>>
    ELSE LET d == Head(seriesDaily)
             c == round1(cum + d.dailyUnits, 10)
         IN <<[date |-> d.date, dailyUnits |-> d.dailyUnits, cumulative |-> c]>>
            \o cumulateUnits(Tail(seriesDaily), c)

\* req: farm, sensor, sampleMinutes (<<>> or <<minutes>>), allowNegative, faults
utahGET(req) ==
    IF req.farm \notin farms
    THEN [locals |-> NoLocals, response |-> [route |-> "utah", status |-> 400]]
    ELSE
    LET startDate == ymd(getChillHoursPeriod(req.year).start)
        endDate   == ymd(getChillHoursPeriod(req.year).end)
        sensors == IF req.sensor # <<>> THEN <<req.sensor[1]>> ELSE getSensorsForFarm
        \* totalChillUnits and avgChillUnits of the merged series
        summarise(sensorList, acc, series) ==
            withConnection(req, "utah",
              [locals |-> [perSensorSeries |-> acc.perSensorSeries, results |-> acc.results,
                           sensors |-> sensorList, queried |-> TRUE],
               response |->
                 [route |-> "utah", status |-> 200,
                  period |-> [start |-> startDate, end |-> endDate],
                  sensors |-> acc.results,
                  series |-> series,
                  today |-> findDate(series, ymd(now)),
                  summary |->
                    [totalChillUnits |-> IF series # <<>>
                                         THEN series[Len(series)].cumulative ELSE 0,
                     avgChillUnits |-> IF Len(acc.results) > 0
                                       THEN roundedMean(
                                              sumDoubles(ToDouble(0),
                                                         [i \in DOMAIN acc.results |->
                                                            acc.results[i].chillUnits]),
                                              Len(acc.results))
                                       ELSE 0,
                     sensorCount |-> Len(acc.results)],
                  sampling |-> [sampleMinutes |-> utahSampleMinutes(req.sampleMinutes)],
                  allowNegative |-> req.allowNegative]])
        \* series of the sensors' series
        merge(sensorList, acc) ==
            summarise(sensorList, acc,
                      cumulateUnits(seriesDailyUnitsMean(acc.perSensorSeries), 0))
    IN merge(sensors,
             utahLoop([perSensorSeries |-> <<>>, results |-> <<>>], sensors,
                      DayStart(startDate), DayStart(endDate), req))

----------------------------------------------------------------------------
(* Chill hours, delta and fixed models: src/unnamed/part_001 *)

safeInt(raw, fallback, min, max) ==
    IF raw = <<>> THEN fallback ELSE Max2(min, Min2(max, raw[1]))

safeMode(raw) == IF raw = "fixed" THEN "fixed" ELSE "delta"

\* Number(null) is 0, which is finite: the fallback is taken for NaN only
safeSampleMinutes(raw) == Max2(1, Min2(60, Number(raw)))

\* temp >= 0 AND temp <= 7.2 (unknown, hence not true, for NULL)
inChillBand(temp) == temp # <<>> /\ temp[1] >= 0 /\ temp[1] <= 72

\* COALESCE(delta_s, 0)
COALESCE0(delta_s) == IF delta_s = <<>> THEN 0 ELSE delta_s[1]

deltaSecondsContributionSQLMutant(temp, delta_s, maxGapSeconds) ==
    IF inChillBand(temp) THEN Max2(COALESCE0(delta_s), 0) ELSE 0
deltaSecondsContributionSQL(temp, delta_s, maxGapSeconds) ==
    IF inChillBand(temp)
    THEN Min2(Max2(COALESCE0(delta_s), 0), maxGapSeconds)
    ELSE 0

wasCappedSQL(temp, delta_s, maxGapSeconds) ==
    IF inChillBand(temp) /\ COALESCE0(delta_s) > maxGapSeconds THEN 1 ELSE 0

countedIntervalSQL(temp, delta_s) ==
    IF inChillBand(temp) /\ COALESCE0(delta_s) > 0 THEN 1 ELSE 0

fixedContributionSQLMutant(temp, sampleMinutes) ==
    IF temp # <<>> /\ temp[1] > 0 /\ temp[1] < 72 THEN sampleMinutes ELSE 0

\* the numerator of hoursPerSample = sampleMinutes / 60 for a row in the band
fixedContributionSQL(temp, sampleMinutes) ==
    IF inChillBand(temp) THEN sampleMinutes ELSE 0

\* TIMESTAMPDIFF(SECOND, LAG(dt) OVER (ORDER BY dt), dt) over the rows in range
LagDelta(rows, r) ==
    LET before == { q.dt : q \in { x \in rows : x.dt < r.dt } }
    IN IF before = {} THEN <<>>
       ELSE << r.dt - (CHOOSE m \in before : \A x \in before : m >= x) >>

\* the aggregate rows of the fixed or delta query, one per day, ascending
chillRows(rows, mode, sampleMinutes, maxGapSeconds) ==
    LET days == GroupDays(rows)
    IN [i \in DOMAIN days |->
          LET R == RowsOfDay(rows, days[i])
          IN [day |-> days[i],
              hoursNum |-> SumOf([r \in R |-> fixedContributionSQL(r.temp, sampleMinutes)], R),
              totalSeconds |->
                  SumOf([r \in R |-> deltaSecondsContributionSQL(
                                        r.temp, LagDelta(rows, r), maxGapSeconds)], R),
              countedPoints |->
                  IF mode = "fixed"
                  THEN Cardinality({ r \in R : inChillBand(r.temp) })
                  ELSE SumOf([r \in R |-> countedIntervalSQL(r.temp, LagDelta(rows, r))], R),
              cappedGaps |->
                  SumOf([r \in R |-> wasCappedSQL(r.temp, LagDelta(rows, r), maxGapSeconds)], R),
              n |-> Cardinality(R)]]

\* hours of one aggregate row, clamped to 0..24 and rounded to one decimal
chillDailyUnitsMutant(row, mode) ==
    IF mode = "fixed"
    THEN round1(row.hoursNum, 60)
    ELSE round1(row.totalSeconds, 3600)
chillDailyUnits(row, mode) ==
    IF mode = "fixed"
    THEN round1(Max2(0, Min2(24 * 60, row.hoursNum)), 60)
    ELSE round1(Max2(0, Min2(24 * 3600, row.totalSeconds)), 3600)

chillSkippedMutant(sensor, reason, soilByCols, allowedSoil) ==
    [sensor |-> sensor, chillHours |-> 0, dataPoints |-> 0, countedPoints |-> 0,
     cappedGaps |-> <<>>, totalSeconds |-> <<>>,
     skippedReason |-> <<>>, isSoilSensor |-> soilByCols,
     includedByException |-> allowedSoil]
chillSkipped(sensor, reason, soilByCols, allowedSoil) ==
    [sensor |-> sensor, chillHours |-> 0, dataPoints |-> 0, countedPoints |-> 0,
     cappedGaps |-> <<>>, totalSeconds |-> <<>>,
     skippedReason |-> <<reason>>, isSoilSensor |-> soilByCols,
     includedByException |-> allowedSoil]

\* cols: what ClassifyColumns answers for the field names of the sensor
chillSensorStep(acc, sensor, cols, rows, mode, sampleMinutes, maxGapSeconds, faults) ==
    LET failed == [perSensorSeries |-> acc.perSensorSeries,
                   results |-> Append(acc.results,
                       chillSkipped(sensor, "error_processing_sensor", <<>>, <<>>))]
    IN
    IF Fails(faults, sensor, "columns") THEN failed
    ELSE LET soilByCols  == cols.soilByCols
             allowedSoil == soilByCols /\ isAllowedSoilSensor(TableName(sensor))
             tempColumn  == cols.tempColumn
             dateColumn  == cols.dateColumn
         IN IF soilByCols /\ ~allowedSoil
            THEN [perSensorSeries |-> acc.perSensorSeries,
                  results |-> Append(acc.results,
                      chillSkipped(sensor, "sensor_soil_or_conductivity", <<TRUE>>, <<FALSE>>))]
            ELSE IF tempColumn = <<>> \/ dateColumn = <<>>
            THEN [perSensorSeries |-> acc.perSensorSeries,
                  results |-> Append(acc.results,
                      chillSkipped(sensor, "missing_temp_or_date",
                                   <<soilByCols>>, <<allowedSoil>>))]
            ELSE IF Fails(faults, sensor, "daily") THEN failed
            ELSE LET q == chillRows(rows, mode, sampleMinutes, maxGapSeconds)
                     daily == [i \in DOMAIN q |->
                                 [date |-> q[i].day, dailyUnits |-> chillDailyUnits(q[i], mode)]]
                     pushed == Append(acc.perSensorSeries, daily)
                     totalHours == round1(SumSeq([i \in DOMAIN daily |-> daily[i].dailyUnits]), 10)
                 IN IF Fails(faults, sensor, "count")
                    THEN [perSensorSeries |-> pushed, results |-> failed.results]
                    ELSE [perSensorSeries |-> pushed,
                          results |-> Append(acc.results,
                            [sensor |-> sensor,
                             chillHours |-> totalHours,
                             dataPoints |-> Cardinality(rows),
                             countedPoints |-> SumSeq([i \in DOMAIN q |-> q[i].countedPoints]),
                             cappedGaps |-> IF mode = "delta"
                                            THEN <<SumSeq([i \in DOMAIN q |-> q[i].cappedGaps])>>
                                            ELSE <<>>,
                             totalSeconds |-> IF mode = "delta"
                                              THEN <<SumSeq([i \in DOMAIN q |-> q[i].totalSeconds])>>
                                              ELSE <<>>,
                             skippedReason |-> <<>>,
                             isSoilSensor |-> <<soilByCols>>,
                             includedByException |-> <<allowedSoil>>])]

\* SHOW COLUMNS of a sensor, classified.  req.schema is <<>> when the tables
\* have the fields ShowColumns lists, <<fields>> when the sensors asked for
\* have these fields instead
chillColumns(req, sensor) ==
    IF req.schema = <<>> THEN Classified[sensor] ELSE ClassifyColumns(req.schema[1])

RECURSIVE chillLoop(_, _, _, _, _, _, _)
chillLoop(acc, sensors, lo, hi, mode, sampleMinutes, req) ==
    IF sensors = <<>> THEN acc
    ELSE chillLoop(chillSensorStep(acc, Head(sensors), chillColumns(req, Head(sensors)),
                                   RowsHalfOpen(Head(sensors), lo, hi),
                                   mode, sampleMinutes,
                                   safeInt(req.maxGapMinutes, 60, 5, 240) * 60, req.faults),
                   Tail(sensors), lo, hi, mode, sampleMinutes, req)

\* dailyUnits: round1(v.sum)
sumOfEntry(v) == roundedMean(v.sum, 1)

seriesDailySum(perSensorSeries) ==
    LET sorted == sortEntries(mergeAllUnits(<<>>, perSensorSeries))
    IN [i \in DOMAIN sorted |->
          [date |-> sorted[i].key, dailyUnits |-> sumOfEntry(sorted[i].value)]]

\* req: farm, sensor, year, range, startDate and endDate (<<>> or a date
\* parameter text), mode, maxGapMinutes and sampleMinutes (<<>> or
\* <<minutes>>), faults, onInvalidDate
chillGET(req) ==
    IF req.farm \notin farms
    THEN [locals |-> NoLocals, response |-> [route |-> "chill", status |-> 400]]
    ELSE
    LET allowCustomRange == req.range = "custom"
        startDateParam == IF allowCustomRange THEN req.startDate ELSE <<>>
        endDateParam   == IF allowCustomRange THEN req.endDate ELSE <<>>
        mode == safeMode(req.mode)
        maxGapMinutes == safeInt(req.maxGapMinutes, 60, 5, 240)
        sampleMinutes == safeSampleMinutes(req.sampleMinutes)
        campaignStart == ymd(getChillHoursPeriod(req.year).start)
        campaignEnd   == ymd(getChillHoursPeriod(req.year).end)
        campaignEndClamped == clampEndToToday(campaignEnd)
        startDate == IF allowCustomRange
                     THEN IF startDateParam # <<>> /\ ~textBeforeDay(startDateParam, campaignStart)
                          THEN startDateParam ELSE <<campaignStart>>
                     ELSE <<campaignStart>>
        endDate   == IF allowCustomRange
                     THEN IF /\ endDateParam # <<>>
                             /\ \/ textBeforeDay(endDateParam, campaignEndClamped)
                                \/ textIsDay(endDateParam, campaignEndClamped)
                          THEN endDateParam ELSE <<campaignEndClamped>>
                     ELSE <<campaignEndClamped>>
        sensors == IF req.sensor # <<>> THEN <<req.sensor[1]>> ELSE getSensorsForFarm
        \* totalChillHours, validSensors and avgChillHours of the merged series
        summarise(sensorList, queryStart, queryEnd, acc, seriesSum, validSensors) ==
            withConnection(req, "chill",
              [locals |-> [perSensorSeries |-> acc.perSensorSeries, results |-> acc.results,
                           sensors |-> sensorList, queried |-> TRUE,
                           columns |-> [k \in DOMAIN sensorList |->
                                          chillColumns(req, sensorList[k])]],
               response |->
                 [route |-> "chill", status |-> 200,
                  period |-> [start |-> campaignStart, end |-> campaignEndClamped],
                  queryRange |-> [start |-> dateOf(queryStart), end |-> dateOf(queryEnd)],
                  sensors |-> acc.results,
                  series |-> seriesSum,
                  summary |->
                    [totalChillHours |-> IF seriesSum # <<>>
                                         THEN seriesSum[Len(seriesSum)].cumulative ELSE 0,
                     avgChillHours |-> IF Len(validSensors) > 0
                                       THEN roundedMean(
                                              sumDoubles(ToDouble(0),
                                                         [i \in DOMAIN validSensors |->
                                                            validSensors[i].chillHours]),
                                              Len(validSensors))
                                       ELSE 0,
                     sensorCount |-> Len(validSensors)],
                  sampling |->
                    [mode |-> mode,
                     maxGapMinutes |-> IF mode = "delta" THEN <<maxGapMinutes>> ELSE <<>>,
                     sampleMinutes |-> IF mode = "fixed" THEN <<sampleMinutes>> ELSE <<>>]]])
        \* series of the sensors' series
        merge(sensorList, queryStart, queryEnd, acc) ==
            summarise(sensorList, queryStart, queryEnd, acc,
                      cumulateUnits(seriesDailySum(acc.perSensorSeries), 0),
                      SelectSeq(acc.results, LAMBDA r : r.skippedReason = <<>>))
        \* the loop over the sensors, each queried over the range
        query(sensorList, queryStart, queryEnd, range) ==
            merge(sensorList, queryStart, queryEnd,
                  chillLoop([perSensorSeries |-> <<>>, results |-> <<>>], sensorList,
                            range.lo, range.hi, mode, sampleMinutes,
                            [req EXCEPT !.faults = sqlFaults(@, sensorList,
                                                             <<queryStart, queryEnd>>,
                                                             req.onInvalidDate)]))
        bounded(sensorList, queryStart, queryEnd) ==
            query(sensorList, queryStart, queryEnd,
                  sqlRange(sqlLowerBound(queryStart, req.onInvalidDate),
                           IF isDateText(queryEnd) THEN <<DayStart(queryEnd[1] + 1)>>
                           ELSE <<>>))
    IN bounded(sensors, startDate, endDate)

----------------------------------------------------------------------------
(* The state machine: the clock advances, sensors log readings at the       *)
(* current instant, and the endpoints serve requests.  A handler runs from  *)
(* the request to its response in one step, on the store as it is then;     *)
(* Reply hands the response to the caller and the server is idle again.     *)

\* A run observes MaxDay consecutive days from day First on; the clock stops
\* at the times of day Tods of each.
ClockDays(First) == First..(First + MaxDay - 1)

ClockInstants(First, Tods) == { d * SecondsPerDay + t : d \in ClockDays(First), t \in Tods }

InitWith(TZs, Envs, First, Tods) ==
    /\ db = {}
    /\ now = CHOOSE t \in ClockInstants(First, Tods) :
                 \A u \in ClockInstants(First, Tods) : t <= u
    /\ tz \in TZs
    /\ env \in Envs
    /\ request = NoRequest
    /\ locals = NoLocals
    /\ response = NoResponse

Idle == request = NoRequest

Tick(First, Tods) ==
    /\ Idle
    /\ \E t \in ClockInstants(First, Tods) :
          /\ t > now
          /\ \A u \in ClockInstants(First, Tods) : u > now => t <= u
          /\ now' = t
    /\ UNCHANGED <<db, tz, env, request, locals, response>>

StoreReading(Tables, Temps, Cap) ==
    /\ Idle
    /\ Cardinality(db) < Cap
    /\ \E s \in Tables, x \in Temps :
          /\ \A r \in db : ~(r.sensor = s /\ r.dt = now)
          /\ db' = db \cup {Reading(s, now, x)}
    /\ UNCHANGED <<now, tz, env, request, locals, response>>

Serve(route, req, out) ==
    /\ Idle
    /\ request' = [route |-> route, req |-> req]
    /\ locals' = out.locals
    /\ response' = out.response
    /\ UNCHANGED <<db, now, tz, env>>

GetGDD(Reqs) == \E req \in Reqs : Serve("gdd", req, gddGET(req))

GetGDDLegacy(Reqs) == \E req \in Reqs : Serve("gddLegacy", req, gddLegacyGET(req))

GetChill(Reqs) == \E req \in Reqs : Serve("chill", req, chillGET(req))

GetUtah(Reqs) == \E req \in Reqs : Serve("utah", req, utahGET(req))

\* a caller of the model library loads the temperatures of one table, in
\* time order, and asks for their Utah units
LoadTemps(table) ==
    LET times == AscSeq({ r.dt : r \in { q \in db : q.sensor = table } })
    IN [i \in DOMAIN times |->
          (CHOOSE r \in db : r.sensor = table /\ r.dt = times[i]).temp]

CallUtahLibrary(Tables, Samples) ==
    \E t \in Tables, sampleMinutes \in Samples :
        Serve("lib.utah", [table |-> t, sampleMinutes |-> sampleMinutes],
              [locals |-> NoLocals,
               response |-> [route |-> "lib.utah", status |-> 200,
                             units |-> calculateUtahChillUnits(LoadTemps(t), sampleMinutes)]])

\* a caller of the model library asks for the chill hours of the
\* temperatures of one table, those readings that carry a value
CallChillLibrary(Tables, Samples) ==
    \E t \in Tables, sampleMinutes \in Samples :
        LET loaded == SelectSeq(LoadTemps(t), LAMBDA v : v # <<>>)
            temperatures == [i \in DOMAIN loaded |-> loaded[i][1]]
        IN Serve("lib.chill", [table |-> t, sampleMinutes |-> sampleMinutes],
                 [locals |-> NoLocals,
                  response |-> [route |-> "lib.chill", status |-> 200,
                                chillHours |-> calculateChillHours(temperatures,
                                                                   sampleMinutes)]])

\* a caller of the model library asks for the GDD of one day of one table,
\* from that day's minimum and maximum temperature
CallGddLibrary(Tables, Base) ==
    \E t \in Tables, day \in { DATE(r.dt) : r \in db }, baseTemp \in Base :
        LET temps == { r.temp : r \in { q \in db : q.sensor = t /\ DATE(q.dt) = day } }
        IN /\ NonNull(temps) # {}
           /\ Serve("lib.gdd", [table |-> t, day |-> day, baseTemp |-> baseTemp],
                    [locals |-> NoLocals,
                     response |-> [route |-> "lib.gdd", status |-> 200,
                                   gdd |-> calculateGDD(SqlMIN(temps), SqlMAX(temps), baseTemp)]])

\* The dashboard's chart (src/components/dashboard/header.tsx), which runs on
\* the same clock and in the same time zone as the server in this model.

\* ymd(d) of header.tsx: the local calendar day of an instant
headerYmd(d) == d \div SecondsPerDay

clampYmdToToday(ymdStr) ==
    LET today == headerYmd(now) IN IF ymdStr > today THEN today ELSE ymdStr

getGDDCampaignRange ==
    LET y     == getFullYear(now)
        start == headerYmd(NewDate(y, 3, 1))
        end   == headerYmd(NewDate(y, 8, 30))
        today == headerYmd(now)
    IN [startDate |-> start, endDate |-> clampYmdToToday(end), isActive |-> today >= start]

\* the request of gddUrl, <<>> when the chart does not call the endpoint;
\* gddStartDate is the text in the chart's state (typed, or restored from
\* localStorage), <<>> when it is empty
gddUrl(gddStartDate) ==
    LET gddCampaign == getGDDCampaignRange
        start == IF gddStartDate # <<>> /\ isValidISODate(gddStartDate)
                 THEN gddStartDate ELSE <<gddCampaign.startDate>>
        safeStart == IF ~textBeforeDay(start, gddCampaign.endDate)
                        /\ ~textIsDay(start, gddCampaign.endDate)
                     THEN <<gddCampaign.endDate>> ELSE start
    IN IF ~gddCampaign.isActive THEN <<>>
       ELSE << [farm |-> "Casa_Olmo", sensor |-> <<>>, year |-> <<>>, baseTemp |-> <<72>>,
                range |-> "custom", startDate |-> safeStart,
                endDate |-> <<gddCampaign.endDate>>, faults |-> {},
                onInvalidDate |-> "error"] >>

\* The chart mounts and loads its GDD data: without a URL nothing is fetched
\* and the chart shows "Fuera de campaña GDD"; with one, the endpoint serves
\* the request.
ChartLoadsGdd(StartTexts) ==
    \E gddStartDate \in StartTexts :
        IF gddUrl(gddStartDate) = <<>>
        THEN Serve("chart.gdd", [gddStartDate |-> gddStartDate],
                   [locals |-> NoLocals,
                    response |-> [route |-> "chart.gdd", status |-> 0,
                                  label |-> "fuera de campaña"]])
        ELSE Serve("chart.gdd", gddUrl(gddStartDate)[1], gddGET(gddUrl(gddStartDate)[1]))

Reply ==
    /\ ~Idle
    /\ request' = NoRequest
    /\ locals' = NoLocals
    /\ response' = NoResponse
    /\ UNCHANGED <<db, now, tz, env>>

----------------------------------------------------------------------------
(* Request and reading domains *)

OptDays(S) == {<<>>} \cup { <<d>> : d \in S }

\* noon
TodsNoon == {43200}

\* UTC and UTC+1
TimeZones == {0, 3600}

AmbientTables == {"p11", "p12"}

\* 2.0, 2.5 and 6.0 degC
TempsMerge == {<<20>>, <<25>>, <<60>>}

\* the number texts of a set of numbers
NumberTexts(S) == { <<n>> : n \in S }

GddReqsOf(Years, BaseTexts, Ranges, Starts, Ends, Faults, OnInvalidDate) ==
    [farm : {"Casa_Olmo"}, sensor : {<<>>}, year : Years, baseTemp : BaseTexts,
     range : Ranges, startDate : Starts, endDate : Ends, faults : Faults,
     onInvalidDate : OnInvalidDate]

GddReqs(Base, Starts, Ends, Faults) ==
    GddReqsOf({<<>>}, NumberTexts(Base), {"campaign"}, {<<>>}, {<<>>}, Faults, {"error"})
    \cup
    GddReqsOf({<<>>}, NumberTexts(Base), {"custom"}, Starts, Ends, Faults, {"error"})

GddLegacyReqsOf(Years, BaseTexts, Faults) ==
    [farm : {"Casa_Olmo"}, sensor : {<<>>}, year : Years, baseTemp : BaseTexts,
     faults : Faults]

GddLegacyReqs(Base, Faults) == GddLegacyReqsOf({<<>>}, NumberTexts(Base), Faults)

ChillReqsOf(Years, Ranges, Starts, Ends, Modes, Gaps, Samples, Faults, OnInvalidDate) ==
    [farm : {"Casa_Olmo"}, sensor : {<<>>}, year : Years, range : Ranges,
     startDate : Starts, endDate : Ends, mode : Modes,
     maxGapMinutes : Gaps, sampleMinutes : Samples, faults : Faults,
     onInvalidDate : OnInvalidDate, schema : {<<>>}]

\* the requests Reqs, each for the sensor named, when its table has the fields
\* of one of Schemas
ChillReqsOnSchema(Reqs, sensor, Schemas) ==
    { [r EXCEPT !.sensor = <<sensor>>, !.schema = <<columnNames>>] :
        r \in Reqs, columnNames \in Schemas }

ChillReqs(Ranges, Starts, Ends, Modes, Gaps, Samples, Faults) ==
    ChillReqsOf({<<>>}, Ranges, Starts, Ends, Modes, Gaps, Samples, Faults, {"error"})

UtahReqsOf(Years, Samples, Negs, Faults) ==
    [farm : {"Casa_Olmo"}, sensor : {<<>>}, year : Years, sampleMinutes : Samples,
     allowNegative : Negs, faults : Faults]

UtahReqs(Samples, Negs, Faults) == UtahReqsOf({<<>>}, Samples, Negs, Faults)

\* The windows of days the runs observe, in year 2 of the model: from the
\* eve of the chill campaign (October 31), from the eve of its last day
\* (February 28 of the next year), and from the eve of the GDD campaign
\* (March 31).
ChillOpening == DayNumber(2, 9, 31)
ChillClosing == DayNumber(3, 1, 28)
GddOpening == DayNumber(2, 2, 31)

LastDayOf(First) == First + MaxDay - 1

----------------------------------------------------------------------------
(* Spec: the four endpoints over two ambient sensors that log at noon *)

Init == InitWith(TimeZones, {<<>>}, ChillOpening, TodsNoon)

Next ==
    \/ Tick(ChillOpening, TodsNoon)
    \/ StoreReading(AmbientTables, TempsMerge, MaxReadings)
    \/ GetGDD(GddReqs({0}, {<<ChillOpening>>}, {<<LastDayOf(ChillOpening)>>}, {{}}))
    \/ GetGDDLegacy(GddLegacyReqs({0}, {{}}))
    \/ GetChill(ChillReqs({"campaign"}, {<<>>}, {<<>>}, {"fixed", "delta"},
                          {<<>>}, {<<60>>}, {{}}))
    \/ GetUtah(UtahReqs({<<60>>}, {FALSE}, {{}}))
    \/ Reply

Spec == Init /\ [][Next]_vars

----------------------------------------------------------------------------
(* SpecChill: the two chill endpoints over two ambient sensors that log cold *)
(* and warm readings at midnight                                            *)

\* 5.0 and 20.0 degC
TempsColdWarm == {<<50>>, <<200>>}

\* 00:00:00
TodsMidnight == {0}

InitChill == InitWith({0}, {<<>>}, ChillOpening, TodsMidnight)

NextChill ==
    \/ Tick(ChillOpening, TodsMidnight)
    \/ StoreReading(AmbientTables, TempsColdWarm, MaxReadings)
    \/ GetChill(ChillReqs({"campaign"}, {<<>>}, {<<>>}, {"fixed", "delta"},
                          {<<>>}, {<<60>>}, {{}}))
    \/ GetUtah(UtahReqs({<<60>>}, {FALSE, TRUE}, {{}}))
    \/ Reply

SpecChill == InitChill /\ [][NextChill]_vars

----------------------------------------------------------------------------
(* SpecRange: the four endpoints over one sensor that logs at midnight and  *)
(* at the last second of the day                                            *)

\* 00:00:00 and 23:59:59
TodsEdge == {0, 86399}

InitRange == InitWith(TimeZones, {<<>>}, ChillClosing, TodsEdge)

NextRange ==
    \/ Tick(ChillClosing, TodsEdge)
    \/ StoreReading({"p11"}, {<<50>>}, MaxReadings)
    \/ GetGDD(GddReqs({0}, {<<ChillClosing>>}, {<<ChillClosing + 1>>, <<LastDayOf(ChillClosing)>>}, {{}}))
    \/ GetGDDLegacy(GddLegacyReqs({0}, {{}}))
    \/ GetChill(ChillReqs({"campaign", "custom"}, {<<ChillClosing>>}, {<<ChillClosing + 1>>}, {"fixed"},
                          {<<>>}, {<<60>>}, {{}}))
    \/ GetUtah(UtahReqs({<<60>>}, {FALSE}, {{}}))
    \/ Reply

SpecRange == InitRange /\ [][NextRange]_vars

----------------------------------------------------------------------------
(* SpecDelta: the delta chill model over one sensor with short and long     *)
(* gaps between readings                                                    *)

\* 00:30:00 and 05:30:00, and 23:45:00 (15 minutes before the next day)
TodsGaps == {1800, 19800, 85500}

\* 5.0 degC (in the band), 10.0 degC (outside) and no value
TempsBand == {<<50>>, <<100>>, <<>>}

InitDelta == InitWith({0}, {<<>>}, ChillOpening, TodsGaps)

NextDelta ==
    \/ Tick(ChillOpening, TodsGaps)
    \/ StoreReading({"p11"}, TempsBand, MaxSensorReadings)
    \/ GetChill(ChillReqs({"campaign"}, {<<>>}, {<<>>}, {"delta"},
                          {<<>>, <<20>>}, {<<>>}, {{}}))
    \/ Reply

SpecDelta == InitDelta /\ [][NextDelta]_vars

----------------------------------------------------------------------------
(* SpecSoil: the two chill endpoints over ambient and soil sensors, with    *)
(* the default allowlist and with one set in the environment                *)

EnvOther == << << <<" ","P","A","R","C","E","L","A"," ","3",".","1"," ","s","u","e","l","o"," ">>,
                  <<" ">> >> >>

InitSoil == InitWith({0}, {<<>>, EnvOther}, ChillOpening, TodsNoon)

NextSoil ==
    \/ Tick(ChillOpening, TodsNoon)
    \/ StoreReading({"p11", "p31", "p42"}, {<<50>>}, MaxReadings)
    \/ GetChill(ChillReqs({"campaign"}, {<<>>}, {<<>>}, {"fixed"},
                          {<<>>}, {<<60>>}, {{}}))
    \/ GetUtah(UtahReqs({<<60>>}, {FALSE}, {{}}))
    \/ Reply

SpecSoil == InitSoil /\ [][NextSoil]_vars

----------------------------------------------------------------------------
(* SpecMilestone: GDD with custom range over one sensor with readings hot   *)
(* enough to cross the thresholds in a few days                             *)

\* 40, 100, 160 and 200 degC: with base 0 the daily GDD of a single reading
TempsHot == {<<400>>, <<1000>>, <<1600>>, <<2000>>}

InitMilestone == InitWith({0}, {<<>>}, GddOpening, TodsNoon)

NextMilestone ==
    \/ Tick(GddOpening, TodsNoon)
    \/ StoreReading({"p11"}, TempsHot, MaxDay)
    \/ GetGDD(GddReqs({0}, {<<GddOpening>>}, {<<LastDayOf(GddOpening)>>}, {{}}))
    \/ Reply

SpecMilestone == InitMilestone /\ [][NextMilestone]_vars

----------------------------------------------------------------------------
(* SpecDaily: GDD and the GDD library over one sensor with two readings a   *)
(* day                                                                      *)

\* 06:00:00 and 18:00:00
TodsTwice == {21600, 64800}

\* 2.0, 10.0, 20.0 and 20.1 degC, and no value
TempsDaily == {<<20>>, <<100>>, <<200>>, <<201>>, <<>>}

InitDaily == InitWith({0}, {<<>>}, GddOpening, TodsTwice)

NextDaily ==
    \/ Tick(GddOpening, TodsTwice)
    \/ StoreReading({"p11"}, TempsDaily, MaxSensorReadings)
    \/ GetGDD(GddReqs({70, 100}, {<<GddOpening>>}, {<<LastDayOf(GddOpening)>>}, {{}}))
    \/ CallGddLibrary({"p11"}, {70, 100})
    \/ Reply

SpecDaily == InitDaily /\ [][NextDaily]_vars

----------------------------------------------------------------------------
(* SpecUtah: the Utah endpoint and the Utah library over one sensor, with   *)
(* a temperature on each side of every band boundary                        *)

TempsUtah == { <<t>> : t \in {13, 14, 23, 24, 90, 91, 123, 124, 158, 159, 179, 180} }

InitUtah == InitWith({0}, {<<>>}, ChillOpening, TodsNoon)

NextUtah ==
    \/ Tick(ChillOpening, TodsNoon)
    \/ StoreReading({"p11"}, TempsUtah, MaxProbes)
    \/ GetUtah(UtahReqs({<<60>>, <<30>>}, {TRUE}, {{}}))
    \/ CallUtahLibrary({"p11"}, {60, 30})
    \/ Reply

SpecUtah == InitUtah /\ [][NextUtah]_vars

----------------------------------------------------------------------------
(* SpecValidation: the chill and GDD endpoints asked for custom ranges with  *)
(* missing and ill-formed dates, and for base temperatures that are not      *)
(* numbers, over one sensor                                                  *)

\* no parameter; the texts 31/12 and 01/04; the text 0002-13-45
NotDates == {<<>>, <<31, 12>>, <<1, 4>>, <<2, 13, 45>>}

\* the text abc
NotNumbers == {<<"a", "b", "c">>}

OnInvalidDates == {"error", "null", "zero"}

InitValidation == InitWith({0}, {<<>>}, ChillOpening, TodsNoon)

NextValidation ==
    \/ Tick(ChillOpening, TodsNoon)
    \/ StoreReading({"p11"}, {<<50>>}, MaxSensorReadings)
    \/ GetGDD(GddReqsOf({<<>>}, NumberTexts({72}) \cup NotNumbers, {"custom"},
                        NotDates \cup {<<ChillOpening>>},
                        NotDates \cup {<<LastDayOf(ChillOpening)>>}, {{}}, OnInvalidDates))
    \/ GetGDDLegacy(GddLegacyReqsOf({<<>>, <<2>>}, {<<>>, <<0>>} \cup NotNumbers, {{}}))
    \/ GetChill(ChillReqsOf({<<>>}, {"custom"},
                            NotDates \cup {<<ChillOpening + 2>>},
                            NotDates \cup {<<ChillOpening + 2>>},
                            {"fixed"}, {<<>>}, {<<60>>}, {{}}, OnInvalidDates))
    \/ Reply

SpecValidation == InitValidation /\ [][NextValidation]_vars

----------------------------------------------------------------------------
(* SpecFaults: the four endpoints over two ambient sensors, with a query of  *)
(* one sensor failing (its columns, its daily aggregate or its count), with  *)
(* the default allowlist and with one that admits a soil table that has no   *)
(* temperature column                                                       *)

\* HF_ALLOWED_SOIL_SENSORS=Parcela 5.1 Suelo
EnvSoil51 == << << TableName("p51") >> >>

\* no fault, or one query of one sensor failing
OneFault ==
    {{}} \cup { {<<t, stage>>} : t \in {"p11"}, stage \in {"columns", "daily", "count"} }

InitFaults == InitWith({0}, {<<>>, EnvSoil51}, ChillOpening, TodsNoon)

NextFaults ==
    \/ Tick(ChillOpening, TodsNoon)
    \/ StoreReading(AmbientTables, {<<50>>}, MaxSensorReadings)
    \/ GetGDD(GddReqs({0}, {<<ChillOpening>>}, {<<LastDayOf(ChillOpening)>>}, OneFault))
    \/ GetGDDLegacy(GddLegacyReqs({0}, OneFault))
    \/ GetChill(ChillReqs({"campaign"}, {<<>>}, {<<>>}, {"fixed"},
                          {<<>>}, {<<60>>}, OneFault))
    \/ GetUtah(UtahReqs({<<60>>}, {FALSE}, OneFault))
    \/ Reply

SpecFaults == InitFaults /\ [][NextFaults]_vars

----------------------------------------------------------------------------
(* SpecCampaign: the four endpoints asked for the campaign of the current    *)
(* year and of a named year, on servers west of, at and east of UTC, in      *)
(* October and in November                                                   *)

\* UTC-1, UTC and UTC+1
TimeZonesAround == {0 - 3600, 0, 3600}

\* no year, this year and the next
YearsAsked == {<<>>, <<2>>, <<3>>}

InitCampaign == InitWith(TimeZonesAround, {<<>>}, ChillOpening, TodsNoon)

NextCampaign ==
    \/ Tick(ChillOpening, TodsNoon)
    \/ StoreReading({"p11"}, {<<50>>}, MaxSensorReadings)
    \/ GetGDD(GddReqsOf(YearsAsked, NumberTexts({0}), {"campaign"}, {<<>>}, {<<>>},
                        {{}}, {"error"}))
    \/ GetGDDLegacy(GddLegacyReqsOf(YearsAsked, NumberTexts({0}), {{}}))
    \/ GetChill(ChillReqsOf(YearsAsked, {"campaign"}, {<<>>}, {<<>>}, {"fixed"},
                            {<<>>}, {<<60>>}, {{}}, {"error"}))
    \/ GetUtah(UtahReqsOf(YearsAsked, {<<60>>}, {FALSE}, {{}}))
    \/ Reply

SpecCampaign == InitCampaign /\ [][NextCampaign]_vars

----------------------------------------------------------------------------
(* SpecSeason: the chart and the four endpoints around April 1, the first    *)
(* day of the GDD campaign, with custom ranges that start before it and end  *)
(* after today                                                              *)

\* March 31 of the year before, March 31, April 2, and September 30
SeasonStarts ==
    {<<DayNumber(1, 2, 31)>>, <<GddOpening>>, <<GddOpening + 2>>, <<DayNumber(2, 8, 30)>>}

SeasonEnds == {<<LastDayOf(GddOpening)>>, <<DayNumber(2, 8, 30)>>}

InitSeason == InitWith({0}, {<<>>}, GddOpening, TodsNoon)

NextSeason ==
    \/ Tick(GddOpening, TodsNoon)
    \/ StoreReading({"p11"}, {<<50>>}, MaxSensorReadings)
    \/ GetGDD(GddReqs({72}, SeasonStarts, SeasonEnds, {{}}))
    \/ GetGDDLegacy(GddLegacyReqs({70}, {{}}))
    \/ GetChill(ChillReqs({"campaign", "custom"}, {<<>>}, SeasonEnds, {"fixed"},
                          {<<>>}, {<<60>>}, {{}}))
    \/ GetUtah(UtahReqs({<<60>>}, {FALSE}, {{}}))
    \/ ChartLoadsGdd({<<>>} \cup SeasonStarts)
    \/ Reply

SpecSeason == InitSeason /\ [][NextSeason]_vars

----------------------------------------------------------------------------
(* What the claims are stated with *)

Ok200 == response.status = 200

IsGddRoute == response.route \in {"gdd", "gddLegacy"}
IsChillRoute == response.route \in {"chill", "utah"}

\* the value of a point of any endpoint's series
PointValue(p) == IF "daily" \in DOMAIN p THEN p.daily ELSE p.dailyUnits

\* the entries the per-sensor series hold for a date: <<series, position>>
EntriesOn(d) ==
    { h \in UNION { {k} \X DOMAIN locals.perSensorSeries[k] :
                        k \in DOMAIN locals.perSensorSeries } :
        locals.perSensorSeries[h[1]][h[2]].date = d }

TotalOn(d) ==
    SumOf([h \in EntriesOn(d) |-> PointValue(locals.perSensorSeries[h[1]][h[2]])],
          EntriesOn(d))

CountOn(d) == Cardinality(EntriesOn(d))

\* m is total/n rounded to the nearest integer, halves up
IsRounded(m, total, n) == 2 * n * m - n <= 2 * total /\ 2 * total < 2 * n * m + n

SeriesDates == { response.series[i].date : i \in DOMAIN response.series }

MergedIsMean ==
    /\ SeriesDates = { d \in { DATE(r.dt) : r \in db } : CountOn(d) > 0 }
    /\ \A i \in DOMAIN response.series :
          IsRounded(PointValue(response.series[i]),
                    TotalOn(response.series[i].date), CountOn(response.series[i].date))

MergedIsTotal ==
    /\ SeriesDates = { d \in { DATE(r.dt) : r \in db } : CountOn(d) > 0 }
    /\ \A i \in DOMAIN response.series :
          PointValue(response.series[i]) = TotalOn(response.series[i].date)

\* C1 (as amended): in the GDD endpoints and the Utah chill endpoint each date
\* of the farm-level series carries the mean, rounded to one decimal, of the
\* daily values of exactly the sensors that have an entry for that date; in
\* the delta/fixed chill endpoint it carries their sum.
C1_MergedMeanOrFarmTotal ==
    Ok200 =>
        IF response.route = "chill" THEN MergedIsTotal ELSE MergedIsMean

\* C1 (as claimed): every endpoint's farm-level daily value is the mean.
C1_MergedIsMeanEverywhere == Ok200 => MergedIsMean

\* C1 witness: GDD, two sensors with 2.0 and 6.0 on one date merge to 4.0
C1_TwoAndSixMergeToFour ==
    /\ Ok200 /\ response.route = "gdd"
    /\ \E i \in DOMAIN response.series :
          /\ CountOn(response.series[i].date) = 2
          /\ TotalOn(response.series[i].date) = 80
          /\ \E h \in EntriesOn(response.series[i].date) :
                locals.perSensorSeries[h[1]][h[2]].daily = 20
          /\ response.series[i].daily = 40

\* C2: the running total starts from 0, adds each day's value in ascending
\* date order and is rounded to one decimal at every step.
C2_CumulativeIsRunningSum ==
    Ok200 =>
        \A i \in DOMAIN response.series :
            LET prev == IF i = 1 THEN 0 ELSE response.series[i - 1].cumulative
            IN /\ i > 1 => response.series[i - 1].date < response.series[i].date
               /\ IsRounded(response.series[i].cumulative,
                            prev + PointValue(response.series[i]), 1)

\* C2 witness: a series of at least two points whose second total adds to a
\* non-zero first one
C2_RunningSumOverTwoDays ==
    /\ Ok200
    /\ Len(response.series) >= 2
    /\ response.series[1].cumulative > 0
    /\ PointValue(response.series[2]) > 0
    /\ response.series[2].cumulative =
          response.series[1].cumulative + PointValue(response.series[2])

\* the inclusive calendar range a response was computed for
ResolvedRange == IF response.route = "chill" THEN response.queryRange ELSE response.period

\* the stored readings of a sensor inside the half-open interval of a range
InHalfOpen(s, range) ==
    { r \in db : /\ r.sensor = s
                 /\ r.dt >= range.start * SecondsPerDay
                 /\ r.dt < (range.end + 1) * SecondsPerDay }

NeverDecreases ==
    \A i \in DOMAIN response.series :
        i > 1 => response.series[i].cumulative >= response.series[i - 1].cumulative

\* C3: a chill response of the fixed or delta model, or of the Utah model
\* without allowNegative, has a cumulative series that never decreases.
C3_ChillCumulativeNeverDecreases ==
    (/\ Ok200
     /\ \/ response.route = "chill"
        \/ response.route = "utah" /\ ~response.allowNegative)
    => NeverDecreases

\* C3 witness: Utah without allowNegative, a day whose only reading is
\* 20.0 degC (a negative Utah rate) after a day that earned units
C3_WarmDayAfterColdDay ==
    /\ Ok200 /\ response.route = "utah" /\ ~response.allowNegative
    /\ \E i \in DOMAIN response.series :
          /\ i > 1
          /\ response.series[i - 1].cumulative > 0
          /\ response.series[i].cumulative = response.series[i - 1].cumulative
          /\ \A r \in db : DATE(r.dt) = response.series[i].date => r.temp = <<200>>

\* C4: every chill and GDD response aggregates exactly the readings in
\* [start 00:00:00, (end + 1 day) 00:00:00) of its resolved range: the days of
\* the series are the days of those readings, the one at end 23:59:59 included.
C4_RangeIsHalfOpen ==
    (Ok200 /\ (IsGddRoute \/ IsChillRoute))
    => SeriesDates = { DATE(r.dt) : r \in InHalfOpen("p11", ResolvedRange) }

\* the seconds the delta model is claimed to credit to a reading, its
\* predecessor taken among the readings of the same sensor in the range
ClaimedDeltaSeconds(r, rows, maxGapMinutes) ==
    LET before == { q.dt : q \in { x \in rows : x.dt < r.dt } }
        last   == CHOOSE m \in before : \A x \in before : m >= x
    IN IF r.temp # <<>> /\ r.temp[1] >= 0 /\ r.temp[1] <= 72 /\ before # {}
       THEN Min2(Max2(r.dt - last, 0), maxGapMinutes * 60)
       ELSE 0

ClaimedDeltaTotal(rows, maxGapMinutes) ==
    SumOf([r \in rows |-> ClaimedDeltaSeconds(r, rows, maxGapMinutes)], rows)

\* the hours of one day, in tenths, that the claimed seconds amount to
ClaimedDeltaDay(s, d, maxGapMinutes) ==
    LET rows == InHalfOpen(s, response.queryRange)
        R    == { r \in rows : DATE(r.dt) = d }
        secs == SumOf([r \in R |-> ClaimedDeltaSeconds(r, rows, maxGapMinutes)], R)
    IN RoundHalfUp(10 * Min2(24 * 3600, secs), 3600)

IsDeltaResponse == Ok200 /\ response.route = "chill" /\ response.sampling.mode = "delta"

\* the sensors a chill response aggregated
AggregatedSensors ==
    { response.sensors[i].sensor :
        i \in { j \in DOMAIN response.sensors : response.sensors[j].skippedReason = <<>> } }

\* C5: in the delta model a reading in [0, 7.2] adds min(max(delta, 0),
\* maxGapMinutes * 60) seconds to its own day, delta being the seconds since
\* the preceding reading of the sensor; a reading outside the band and the
\* first reading add 0.
C5_DeltaAddsCappedGap ==
    IsDeltaResponse =>
        LET cap == response.sampling.maxGapMinutes[1] IN
        /\ \A i \in DOMAIN response.sensors :
              response.sensors[i].skippedReason = <<>> =>
                  response.sensors[i].totalSeconds =
                      << ClaimedDeltaTotal(InHalfOpen(response.sensors[i].sensor,
                                                      response.queryRange), cap) >>
        /\ \A d \in response.queryRange.start .. response.queryRange.end :
              TotalOn(d) = SumOf([s \in AggregatedSensors |-> ClaimedDeltaDay(s, d, cap)],
                                 AggregatedSensors)

\* C5 witness: maxGapMinutes 60, a 5.0 degC reading at 05:30 whose predecessor
\* is at 00:30 of the same day, and a sensor total of exactly 3600 seconds
C5_FiveHourGapCountsOneHour ==
    /\ IsDeltaResponse
    /\ response.sampling.maxGapMinutes = <<60>>
    /\ \E r \in InHalfOpen("p11", response.queryRange) :
          /\ r.temp = <<50>>
          /\ r.dt % SecondsPerDay = 19800
          /\ \E q \in InHalfOpen("p11", response.queryRange) : q.dt = r.dt - 18000
          /\ TotalOn(DATE(r.dt)) = 10
    /\ \E i \in DOMAIN response.sensors :
          /\ response.sensors[i].sensor = "p11"
          /\ response.sensors[i].totalSeconds = <<3600>>

\* a sensor the soil exclusion applies to: soil by its field names and not
\* named in the allowlist
ExcludedSoil(s) == Classified[s].soilByCols /\ ~isAllowedSoilSensor(TableName(s))

ReportedAsSoil(s) ==
    \E i \in DOMAIN response.sensors :
        /\ response.sensors[i].sensor = s
        /\ "skippedReason" \in DOMAIN response.sensors[i]
        /\ response.sensors[i].skippedReason = <<"sensor_soil_or_conductivity">>
        /\ response.sensors[i].dataPoints = 0

\* a sensor reported with a total and no skippedReason
ReportedAsAggregated(s) ==
    \E i \in DOMAIN response.sensors :
        /\ response.sensors[i].sensor = s
        /\ "skippedReason" \in DOMAIN response.sensors[i] =>
               response.sensors[i].skippedReason = <<>>

\* C6: in every chill computation a soil sensor outside the allowlist is
\* reported with skippedReason "sensor_soil_or_conductivity" and none of its
\* readings reach the daily series; a soil sensor in the allowlist is
\* aggregated like an ambient one.
C6_SoilSensorsAreSkipped ==
    (Ok200 /\ IsChillRoute) =>
        /\ \A k \in DOMAIN locals.sensors :
              LET s == locals.sensors[k] IN
              /\ ExcludedSoil(s) => ReportedAsSoil(s)
              /\ (/\ Classified[s].soilByCols /\ ~ExcludedSoil(s)
                  /\ Classified[s].tempColumn # <<>>) => ReportedAsAggregated(s)
        /\ SeriesDates \subseteq { DATE(r.dt) : r \in { q \in db : ~ExcludedSoil(q.sensor) } }

MilestoneIsFirstCrossing(m, threshold) ==
    IF \E i \in DOMAIN response.series : response.series[i].cumulative >= threshold
    THEN /\ m.reached
         /\ m.date # <<>>
         /\ \E i \in DOMAIN response.series :
               /\ response.series[i].date = m.date[1]
               /\ response.series[i].cumulative >= threshold
               /\ \A j \in DOMAIN response.series :
                     response.series[j].date < m.date[1] =>
                         response.series[j].cumulative < threshold
    ELSE ~m.reached /\ m.date = <<>>

\* C7: the milestone of a threshold (450, 900) is the date of the first point,
\* in ascending date order, whose cumulative value reaches it, and
\* {reached: false, date: null} when none does.
C7_MilestoneIsFirstCrossing ==
    (Ok200 /\ response.route = "gdd") =>
        /\ MilestoneIsFirstCrossing(response.milestones.gdd450, 4500)
        /\ MilestoneIsFirstCrossing(response.milestones.gdd900, 9000)

\* C7 witness: cumulative [100, 300, 460, 500] on four days, 450 reached on
\* the third and 900 not reached
C7_CrossesOnThirdDay ==
    /\ Ok200 /\ response.route = "gdd"
    /\ Len(response.series) = 4
    /\ [i \in 1..4 |-> response.series[i].cumulative] = <<1000, 3000, 4600, 5000>>
    /\ response.milestones.gdd450 = [reached |-> TRUE, date |-> <<response.series[3].date>>]
    /\ response.milestones.gdd900 = [reached |-> FALSE, date |-> <<>>]

\* max(0, (tmin + tmax)/2 - baseTemp) rounded to one decimal, in tenths
ClaimedDailyGDD(tmin, tmax, baseTemp) ==
    LET twice == Max2(0, tmin + tmax - 2 * baseTemp) IN (twice + 1) \div 2

\* the temperatures a set of readings carries
TempsOf(rows) == { r.temp[1] : r \in { q \in rows : q.temp # <<>> } }

LeastOf(S) == CHOOSE m \in S : \A x \in S : m <= x
GreatestOf(S) == CHOOSE m \in S : \A x \in S : m >= x

ClaimedGDDOfRows(rows, baseTemp) ==
    ClaimedDailyGDD(LeastOf(TempsOf(rows)), GreatestOf(TempsOf(rows)), baseTemp)

\* the sensors with a reading on day d of the resolved range
SensorsOn(d) == { s \in Range(locals.sensors) :
                    \E r \in InHalfOpen(s, ResolvedRange) : DATE(r.dt) = d }

DayRows(s, d) == { r \in InHalfOpen(s, ResolvedRange) : DATE(r.dt) = d }

\* C8: for every sensor and every day with temperature data, the daily GDD is
\* max(0, (tmin + tmax)/2 - baseTemp) rounded to one decimal, in the endpoint
\* and in the library.
C8_DailyGDDFormula ==
    /\ (Ok200 /\ response.route = "gdd") =>
          \A d \in response.period.start .. response.period.end :
              (/\ SensorsOn(d) # {}
               /\ \A s \in SensorsOn(d) : TempsOf(DayRows(s, d)) # {})
              => /\ CountOn(d) = Cardinality(SensorsOn(d))
                 /\ TotalOn(d) =
                       SumOf([s \in SensorsOn(d) |->
                                 ClaimedGDDOfRows(DayRows(s, d), response.baseTemp)],
                             SensorsOn(d))
    /\ (Ok200 /\ response.route = "lib.gdd") =>
          response.gdd =
              ClaimedGDDOfRows({ r \in db : /\ r.sensor = request.req.table
                                            /\ DATE(r.dt) = request.req.day },
                               request.req.baseTemp)

\* C8 witness: baseTemp 7 and a day whose readings are 10.0 and 20.0 degC
\* give a daily GDD of 8.0
C8_TenAndTwentyGiveEight ==
    /\ Ok200 /\ response.route = "gdd" /\ response.baseTemp = 70
    /\ \E d \in response.period.start .. response.period.end :
          /\ { r.temp : r \in DayRows("p11", d) } = {<<100>>, <<200>>}
          /\ TotalOn(d) = 80 /\ CountOn(d) = 1

\* the seven-band Utah table, in tenths of a unit per hour
ClaimedUtahRate(T) ==
    CASE T < 14 -> 0
      [] T >= 14 /\ T < 24 -> 5
      [] T >= 24 /\ T < 91 -> 10
      [] T >= 91 /\ T < 124 -> 5
      [] T >= 124 /\ T < 159 -> 0
      [] T >= 159 /\ T < 180 -> -5
      [] T >= 180 -> -10

\* the sum of rate * (sampleMinutes / 60) over a set of readings, rounded to
\* one decimal, in tenths
ClaimedUtahUnits(rows, sampleMinutes) ==
    RoundHalfUp(SumOf([r \in rows |-> ClaimedUtahRate(r.temp[1]) * sampleMinutes], rows), 60)

\* C9: the Utah endpoint (the SQL CASE) and the Utah library (utahHourlyUnits)
\* both credit a reading with the rate of the seven-band table times
\* sampleMinutes/60; every boundary belongs to the band above it.
C9_UtahBandsAgree ==
    /\ (Ok200 /\ response.route = "utah" /\ response.allowNegative) =>
          \A i \in DOMAIN response.series :
              response.series[i].dailyUnits =
                  ClaimedUtahUnits({ r \in db : r.sensor = "p11"
                                                /\ DATE(r.dt) = response.series[i].date },
                                   response.sampling.sampleMinutes)
    /\ (Ok200 /\ response.route = "lib.utah") =>
          response.units =
              ClaimedUtahUnits({ r \in db : r.sensor = request.req.table },
                               request.req.sampleMinutes)
    /\ \A r \in db : r.temp # <<>> =>
          /\ utahHourlyUnits(r.temp[1]) = ClaimedUtahRate(r.temp[1])
          /\ utahUnitsSQL(r.temp) = ClaimedUtahRate(r.temp[1])

\* C9 witness: the endpoint, hourly samples, credits a reading of 9.1 degC
\* with 0.5 units
C9_NinePointOneEarnsHalf ==
    /\ Ok200 /\ response.route = "utah" /\ response.allowNegative
    /\ response.sampling.sampleMinutes = 60
    /\ \E i \in DOMAIN response.series :
          /\ response.series[i].dailyUnits = 5
          /\ \E r \in db : DATE(r.dt) = response.series[i].date /\ r.temp = <<91>>

\* the parameters of a request that the endpoints must refuse: a custom range
\* without a start or an end, or with one that is not the text of a calendar
\* day, and a base temperature that is not a finite number
HasInvalidRange ==
    /\ request.route \in {"chill", "gdd"}
    /\ request.req.range = "custom"
    /\ \/ request.req.startDate = <<>> \/ request.req.endDate = <<>>
       \/ ~isDateText(request.req.startDate) \/ ~isDateText(request.req.endDate)

HasInvalidBaseTemp ==
    /\ request.route \in {"gdd", "gddLegacy"}
    /\ request.req.baseTemp # <<>>
    /\ ~isFiniteNumberText(request.req.baseTemp)

\* C11 (as claimed): a request for a custom range with a missing or invalid
\* start or end date, and a GDD request with a base temperature that is not
\* finite, is answered with a 4xx status before any sensor is queried.
C11_InvalidInputIsRejected ==
    (HasInvalidRange \/ HasInvalidBaseTemp)
    => (response.status \in 400..499 /\ ~locals.queried)

IsEndpoint == request.route \in {"gdd", "gddLegacy", "chill", "utah"}

MissingColumns(s) == Classified[s].tempColumn = <<>> \/ Classified[s].dateColumn = <<>>

\* the skippedReason the data error of sensor s calls for in the request at
\* hand, <<>> when its processing meets none.  The queries of a sensor run in
\* the order schema, daily aggregate, count; the GDD endpoints issue no count,
\* and the delta/fixed chill endpoint sets a soil sensor aside before it looks
\* for its columns.
DataErrorOf(s) ==
    IF Fails(request.req.faults, s, "columns") THEN <<"error_processing_sensor">>
    ELSE IF request.route = "chill" /\ ExcludedSoil(s) THEN <<>>
    ELSE IF MissingColumns(s) THEN <<"missing_temp_or_date">>
    ELSE IF \/ Fails(request.req.faults, s, "daily")
            \/ /\ request.route \in {"chill", "utah"}
               /\ Fails(request.req.faults, s, "count")
    THEN <<"error_processing_sensor">>
    ELSE <<>>

ListedWith(s, reason) ==
    \E i \in DOMAIN response.sensors :
        /\ response.sensors[i].sensor = s
        /\ "skippedReason" \in DOMAIN response.sensors[i]
        /\ response.sensors[i].skippedReason = reason

RequestSensors == { locals.sensors[i] : i \in DOMAIN locals.sensors }

\* C12 (as claimed): a per-sensor data error never aborts a chill or GDD
\* request: the response is a success, the sensor in error is listed with
\* skippedReason "missing_temp_or_date" (a column not found) or
\* "error_processing_sensor" (a failed query), and every other sensor is
\* listed with its result.
C12_SensorErrorsAreReported ==
    IsEndpoint =>
        /\ Ok200
        /\ \A s \in RequestSensors :
              IF DataErrorOf(s) # <<>> THEN ListedWith(s, DataErrorOf(s))
              ELSE (request.route = "chill" /\ ExcludedSoil(s)) \/ ReportedAsAggregated(s)

\* the sensors that end the request marked as failed or left out
FailedSensors == { s \in RequestSensors : ~ReportedAsAggregated(s) }

\* the total of the farm-level series
SeriesTotal ==
    IF response.series = <<>> THEN 0 ELSE response.series[Len(response.series)].cumulative

\* C13 (as claimed): a sensor that ends the request failed gives the merged
\* series no daily value and the summary total nothing: every date of the
\* series is a day of a reading of a sensor that did not fail, and the total
\* of the delta/fixed chill endpoint is the sum of the totals of the sensors
\* it reports as aggregated.
C13_FailedSensorContributesNothing ==
    (IsEndpoint /\ Ok200) =>
        /\ SeriesDates \subseteq { DATE(r.dt) : r \in { q \in db : q.sensor \notin FailedSensors } }
        /\ request.route = "chill" =>
              /\ response.summary.totalChillHours = SeriesTotal
              /\ SeriesTotal =
                    SumOf([i \in DOMAIN response.sensors |->
                             IF response.sensors[i].skippedReason = <<>>
                             THEN response.sensors[i].chillHours ELSE 0],
                          DOMAIN response.sensors)

\* the reference year of the request at hand: the one it names, else the
\* current year of the server's calendar
ReferenceYear ==
    IF request.req.year # <<>> THEN request.req.year[1] ELSE getFullYear(now)

\* the year the claimed chill campaign starts in
ClaimedChillStartYear ==
    IF getMonth(now) + 1 >= 11 THEN ReferenceYear ELSE ReferenceYear - 1

\* C14 (as claimed): the chill campaign that is queried and reported starts
\* on November 1 of the reference year when the current month is November or
\* December, of the year before otherwise, and ends, before it is clamped to
\* today, on March 1 of the year after the start, whatever the reference
\* year, the current date and the server's time zone.
C14_ChillCampaignIsNov1ToMar1 ==
    (IsChillRoute /\ Ok200) =>
        /\ response.period.start = DayNumber(ClaimedChillStartYear, 10, 1)
        /\ \/ response.period.end = DayNumber(ClaimedChillStartYear + 1, 2, 1)
           \/ /\ response.route = "chill"
              /\ response.period.end < DayNumber(ClaimedChillStartYear + 1, 2, 1)
              /\ response.period.end \in {DATE(now), ymd(now)}

\* C15 (as claimed): the GDD campaign that is queried and reported starts on
\* April 1 and ends on September 30 of the reference year, whatever the
\* server's time zone.
C15_GddCampaignIsApr1ToSep30 ==
    (IsGddRoute /\ Ok200) =>
        /\ response.period.start = DayNumber(ReferenceYear, 3, 1)
        /\ response.period.end = DayNumber(ReferenceYear, 8, 30)

\* a GDD request for the campaign of the current year: the campaign range of
\* an endpoint with no year or the current one, or the chart loading its data
ForCurrentGddCampaign ==
    \/ /\ request.route = "gdd" /\ request.req.range = "campaign"
       /\ request.req.year \in {<<>>, <<getFullYear(now)>>}
    \/ /\ request.route = "gddLegacy"
       /\ request.req.year \in {<<>>, <<getFullYear(now)>>}
    \/ request.route = "chart.gdd"

BeforeGddCampaign == DATE(now) < DayNumber(getFullYear(now), 3, 1)

\* C16 (as claimed): before April 1 of the current year a GDD request for the
\* current campaign queries no sensor, and its outcome says that the campaign
\* has not begun: it is neither an error nor a result with a series.
C16_NoGddBeforeApril ==
    (ForCurrentGddCampaign /\ BeforeGddCampaign) =>
        /\ ~locals.queried
        /\ response.status \notin 400..599
        /\ "series" \notin DOMAIN response

\* C17 (as claimed): the start date a custom GDD range filters the readings
\* with is never before April 1 and never after September 30 of the campaign.
C17_CustomGddStartInCampaign ==
    (/\ request.route \in {"gdd", "chart.gdd"} /\ Ok200 /\ response.range = "custom")
    => /\ response.period.start >= DayNumber(getFullYear(now), 3, 1)
       /\ response.period.start <= DayNumber(getFullYear(now), 8, 30)

\* C18 (as claimed): the end date that a chill or GDD request queries and
\* reports is never later than the current local calendar day.
C18_EndIsNeverAfterToday ==
    ((IsGddRoute \/ IsChillRoute) /\ Ok200) => ResolvedRange.end <= DATE(now)


----------------------------------------------------------------------------
(* The sensor data endpoint *)

\* Array.prototype.find, given the elements the test accepts: the first of
\* them, <<>> for undefined
find(accepted) == IF accepted = <<>> THEN <<>> ELSE <<Head(accepted)>>

priority == << <<"d","a","t","e","t","i","m","e">>, <<"t","i","m","e","s","t","a","m","p">>, <<"d","a","t","e">>, <<"f","e","c","h","a">>, <<"t","i","m","e">> >>

RECURSIVE pickDateColumnExact(_, _)
\* the loop over the priority names: the first name some field equals
pickDateColumnExact(columnNames, names) ==
    IF names = <<>> THEN <<>>
    ELSE LET found == find(SelectSeq(columnNames, LAMBDA c : toLowerCase(c) = Head(names)))
         IN IF found # <<>> THEN found ELSE pickDateColumnExact(columnNames, Tail(names))

pickDateColumn(columnNames) ==
    LET exact == pickDateColumnExact(columnNames, priority)
    IN IF exact # <<>> THEN exact
       ELSE find(SelectSeq(columnNames, LAMBDA col :
                LET c == toLowerCase(col)
                IN \/ includes(c, <<"d","a","t","e","t","i","m","e">>)
                   \/ includes(c, <<"f","e","c","h","a">>)
                   \/ includes(c, <<"d","a","t","e">>)
                   \/ includes(c, <<"t","i","m","e","s","t","a","m","p">>)
                   \/ includes(c, <<"t","i","m","e">>)))

HumidityCandidates == << <<"h","u","m","i","d","i","t","y">>, <<"h","u","m","e","d","a","d">>, <<"r","h">> >>

\* req: farm, sensorId, schema (the fields SHOW COLUMNS answers for the
\* table), no startDate, endDate, metric or metrics.  data holds the rows of
\* the table, all of them below the default limit; their order is left out.
sensorDataGET(req) ==
    LET columnNames == req.schema
        dateColumn == pickDateColumn(columnNames)
        soilByCols == isSoilSensorByColumns(columnNames)
        sensorType == IF soilByCols THEN "soil" ELSE "ambient"
    IN [locals |-> NoLocals,
        response |->
          [route |-> "data", status |-> 200,
           sensorId |-> req.sensorId,
           sensorType |-> sensorType,
           columns |-> columnNames,
           data |-> { r \in db : r.sensor = req.sensorId },
           dateColumn |-> dateColumn,
           hasTs |-> dateColumn # <<>>,
           availableMetrics |->
             [hasTemperature |-> pickColumn(columnNames, TempCandidates) # <<>>,
              hasHumidity |-> pickColumn(columnNames, HumidityCandidates) # <<>>]]]

GetSensorData(Reqs) == \E req \in Reqs : Serve("data", req, sensorDataGET(req))

----------------------------------------------------------------------------
(* SpecSchema: the chill and the sensor data endpoints over one sensor whose *)
(* table has up to MaxFields of the field names below, in any order          *)

MaxFields == 3

c_updated_datetime == <<"u","p","d","a","t","e","d","_","d","a","t","e","t","i","m","e">>
c_fecha     == <<"f","e","c","h","a">>
c_TimeStamp == <<"T","i","m","e","S","t","a","m","p">>
c_date      == <<"d","a","t","e">>
c_time      == <<"t","i","m","e">>

FieldNames == {c_id, c_datetime, c_updated_datetime, c_fecha, c_TimeStamp, c_date, c_time,
               c_temperature, c_humidity}

\* the lists of up to MaxFields different field names
Schemas ==
    { f \in UNION { [1..n -> FieldNames] : n \in 1..MaxFields } :
        \A i, j \in DOMAIN f : i # j => f[i] # f[j] }

SensorDataReqs(Tables, Lists) == [farm : {"Casa_Olmo"}, sensorId : Tables, schema : Lists]

InitSchema == InitWith({0}, {<<>>}, ChillOpening, TodsNoon)

NextSchema ==
    \/ Tick(ChillOpening, TodsNoon)
    \/ StoreReading({"p11"}, {<<50>>}, MaxProbes)
    \/ GetChill(ChillReqsOnSchema(
           ChillReqs({"campaign"}, {<<>>}, {<<>>}, {"fixed"}, {<<>>}, {<<60>>}, {{}}),
           "p11", Schemas))
    \/ GetSensorData(SensorDataReqs({"p11"}, Schemas))
    \/ Reply

SpecSchema == InitSchema /\ [][NextSchema]_vars


----------------------------------------------------------------------------
(* The date/time field and the kind of a sensor, from its field names *)

ClaimedDatePriority == << <<"d","a","t","e","t","i","m","e">>, <<"t","i","m","e","s","t","a","m","p">>, <<"d","a","t","e">>, <<"f","e","c","h","a">>, <<"t","i","m","e">> >>

\* the priority name of highest rank that some field equals or contains,
\* <<>> when no field matches any
FirstMatchedName(columnNames) ==
    LET matched == { k \in DOMAIN ClaimedDatePriority :
                        \E i \in DOMAIN columnNames :
                            includes(toLowerCase(columnNames[i]), ClaimedDatePriority[k]) }
    IN IF matched = {} THEN <<>>
       ELSE << ClaimedDatePriority[CHOOSE k \in matched : \A j \in matched : k <= j] >>

HasFieldNamed(columnNames, name) ==
    \E i \in DOMAIN columnNames : toLowerCase(columnNames[i]) = name

\* the request at hand was served for a sensor with the fields of a list
ServedOnSchema ==
    \/ request.route = "data"
    \/ request.route = "chill" /\ request.req.schema # <<>>

SchemaServed == IF request.route = "data" THEN request.req.schema ELSE request.req.schema[1]

\* the date/time field the handler settled on
DateFieldChosen ==
    IF request.route = "data" THEN response.dateColumn ELSE locals.columns[1].dateColumn

\* the handler came to choosing a date/time field: the chill endpoint does
\* not for a sensor it leaves out as a soil sensor
ChoosesDateField ==
    /\ ServedOnSchema
    /\ request.route = "chill" =>
          response.sensors[1].skippedReason # <<"sensor_soil_or_conductivity">>

\* the priority decides, and a field that equals the name wins over fields
\* that contain it
ChosenByPriority ==
    LET name == FirstMatchedName(SchemaServed)
    IN (name # <<>> /\ HasFieldNamed(SchemaServed, name[1]))
          => (DateFieldChosen # <<>> /\ toLowerCase(DateFieldChosen[1]) = name[1])

\* C19: whatever the fields of a sensor, the date/time field an endpoint
\* works with is the one the priority datetime, timestamp, date, fecha, time
\* selects, names compared without regard to case: when a field equals the
\* highest-ranked name that occurs in the field names at all, that field is
\* chosen, and not one that only contains the name or matches a lower rank.
C19_DateFieldByPriority == ChoosesDateField => ChosenByPriority

ClaimedTempNames == { <<"t","e","m","p","e","r","a","t","u","r","e">>, <<"t","e","m","p","e","r","a","t","u","r","a">>, <<"t","e","m","p">> }

\* a date/time field, a temperature field, perhaps a humidity field, and
\* nothing else
IsPlainAmbient(columnNames) ==
    LET lower == [i \in DOMAIN columnNames |-> toLowerCase(columnNames[i])]
        dates == { i \in DOMAIN lower : lower[i] \in Range(ClaimedDatePriority) }
        temps == { i \in DOMAIN lower : lower[i] \in ClaimedTempNames }
        hums  == { i \in DOMAIN lower : lower[i] = c_humidity }
    IN /\ Cardinality(dates) = 1
       /\ Cardinality(temps) = 1
       /\ DOMAIN lower = dates \cup temps \cup hums

TreatedAsAmbient ==
    IF request.route = "data" THEN response.sensorType = "ambient"
    ELSE /\ Len(response.sensors) = 1
         /\ response.sensors[1].isSoilSensor = <<FALSE>>
         /\ response.sensors[1].skippedReason = <<>>

\* C20: a sensor whose fields are one date/time field of the recognised
\* names, one temperature field and possibly a humidity field is ambient: the
\* data endpoint reports it as ambient and the chill endpoint aggregates it
\* instead of leaving it out as a soil sensor.
C20_PlainSensorIsAmbient ==
    (ServedOnSchema /\ IsPlainAmbient(SchemaServed)) => TreatedAsAmbient

----------------------------------------------------------------------------
(* Days without temperature data *)

\* the days on which some sensor of the request has a reading that carries a
\* temperature
DaysWithTemperature ==
    { DATE(r.dt) : r \in { q \in db : q.sensor \in Range(locals.sensors) /\ q.temp # <<>> } }

\* C21: a day is in the daily series of a GDD response only if some reading
\* of that day carries a temperature; a day whose readings all lack the value
\* is absent, not present with 0.
C21_NoDayWithoutTemperature ==
    (Ok200 /\ IsGddRoute) => SeriesDates \subseteq DaysWithTemperature

----------------------------------------------------------------------------
(* The "today" point *)

\* the current calendar day of the server's local time
LocalToday == now \div SecondsPerDay

\* the date of the point claimed for today: the local day when the series has
\* it, the date of the last entry when not, <<>> for an empty series
ClaimedTodayDate ==
    IF response.series = <<>> THEN <<>>
    ELSE IF LocalToday \in SeriesDates THEN <<LocalToday>>
    ELSE <<response.series[Len(response.series)].date>>

\* C22: a chill or GDD response carries a today point, the entry of the
\* series dated the current local day when there is one and the last entry
\* otherwise; it is null only for an empty series.
C22_TodayIsTodayOrLast ==
    (Ok200 /\ (IsGddRoute \/ IsChillRoute)) =>
        /\ "today" \in DOMAIN response
        /\ IF ClaimedTodayDate = <<>> THEN response.today = <<>>
           ELSE /\ response.today # <<>>
                /\ response.today[1].date = ClaimedTodayDate[1]

----------------------------------------------------------------------------
(* The summary *)

\* the sensors of the request that are not skipped: not set aside as soil
\* sensors, with both columns, and with no failing query
NotSkippedSensors ==
    { s \in RequestSensors :
        /\ DataErrorOf(s) = <<>>
        /\ ~(request.route = "chill" /\ ExcludedSoil(s)) }

\* the total an entry of the sensor list reports for its sensor
OwnTotal(e) ==
    IF "gdd" \in DOMAIN e THEN e.gdd
    ELSE IF "chillUnits" \in DOMAIN e THEN e.chillUnits
    ELSE e.chillHours

\* the entries of the sensor list that belong to the sensors not skipped
ValidEntries == { i \in DOMAIN response.sensors : response.sensors[i].sensor \in NotSkippedSensors }

SummaryTotal ==
    IF IsGddRoute THEN response.summary.totalGDD
    ELSE IF response.route = "utah" THEN response.summary.totalChillUnits
    ELSE response.summary.totalChillHours

SummaryAverage ==
    IF IsGddRoute THEN response.summary.avgGDD
    ELSE IF response.route = "utah" THEN response.summary.avgChillUnits
    ELSE response.summary.avgChillHours

\* C23: the summary counts the sensors that were not skipped, averages their
\* own totals (rounded to one decimal, 0 when there are none) and takes for
\* total the last cumulative value of the merged series (0 when it is empty).
C23_SummaryOverValidSensors ==
    (IsEndpoint /\ Ok200) =>
        /\ response.summary.sensorCount = Cardinality(NotSkippedSensors)
        /\ Cardinality(ValidEntries) = Cardinality(NotSkippedSensors)
        /\ IF NotSkippedSensors = {} THEN SummaryAverage = 0
           ELSE IsRounded(SummaryAverage,
                          SumOf([i \in ValidEntries |-> OwnTotal(response.sensors[i])],
                                ValidEntries),
                          Cardinality(NotSkippedSensors))
        /\ SummaryTotal = SeriesTotal

\* C23 witness: a chill response in which a query of one sensor failed and
\* the two sensors left have totals of 2 h and 0 h: count 2, average 1.0
C23_FailedSensorOutOfAverage ==
    /\ Ok200 /\ response.route = "chill"
    /\ \E s \in RequestSensors : DataErrorOf(s) = <<"error_processing_sensor">>
    /\ response.summary.sensorCount = 2
    /\ Cardinality(NotSkippedSensors) = 2
    /\ response.summary.avgChillHours = 10

----------------------------------------------------------------------------
(* SpecFixed: the chill endpoints and the chill library over one sensor,    *)
(* with readings at uneven gaps, a temperature on each side of both ends of *)
(* the band, and the sampling interval absent, inside and outside 1..60     *)

\* 00:30:00 and 05:30:00
TodsUneven == {1800, 19800}

\* 0.0, 7.2, 7.3 and -0.1 degC
TempsEdge == {<<0>>, <<72>>, <<73>>, <<0 - 1>>}

\* sampleMinutes absent, 10, 60 and 90
SamplesAsked == {<<>>, <<10>>, <<60>>, <<90>>}

InitFixed == InitWith({0}, {<<>>}, ChillOpening, TodsUneven)

NextFixed ==
    \/ Tick(ChillOpening, TodsUneven)
    \/ StoreReading({"p11"}, TempsEdge, MaxSensorReadings)
    \/ GetChill(ChillReqs({"campaign"}, {<<>>}, {<<>>}, {"fixed"},
                          {<<>>}, SamplesAsked, {{}}))
    \/ GetUtah(UtahReqs({<<>>, <<30>>}, {FALSE}, {{}}))
    \/ CallChillLibrary({"p11"}, {10, 60})
    \/ Reply

SpecFixed == InitFixed /\ [][NextFixed]_vars

----------------------------------------------------------------------------
(* The fixed chill model *)

IsFixedResponse == Ok200 /\ response.route = "chill" /\ response.sampling.mode = "fixed"

\* the readings that carry a temperature inside [0, 7.2]
InBand(rows) == { r \in rows : r.temp # <<>> /\ r.temp[1] >= 0 /\ r.temp[1] <= 72 }

\* sampleMinutes/60 hours for every reading in the band, in tenths of an hour
ClaimedFixedHours(rows, sampleMinutes) ==
    RoundHalfUp(10 * Cardinality(InBand(rows)) * sampleMinutes, 60)

----------------------------------------------------------------------------
(* The sampling interval *)

\* 10 minutes when the parameter is absent, its value brought into 1..60 when
\* it is present
ClaimedSampleMinutes(raw) == IF raw = <<>> THEN 10 ELSE Max2(1, Min2(60, raw[1]))

\* C26: the sampling interval of a chill request is 10 minutes when the
\* sampleMinutes parameter is absent and the parameter's value clamped to
\* [1, 60] when it is present; the response reports that interval and the
\* fixed model counts with it.
C26_SampleMinutesDefaultsToTen ==
    /\ IsFixedResponse =>
          LET sampleMinutes == ClaimedSampleMinutes(request.req.sampleMinutes) IN
          /\ response.sampling.sampleMinutes = <<sampleMinutes>>
          /\ \A d \in response.queryRange.start .. response.queryRange.end :
                TotalOn(d) =
                    SumOf([s \in AggregatedSensors |->
                              ClaimedFixedHours({ r \in InHalfOpen(s, response.queryRange) :
                                                    DATE(r.dt) = d }, sampleMinutes)],
                          AggregatedSensors)
    /\ (Ok200 /\ response.route = "utah") =>
          response.sampling.sampleMinutes = ClaimedSampleMinutes(request.req.sampleMinutes)

----------------------------------------------------------------------------
(* The resolved range of a chill request *)

\* C27: the range a delta/fixed chill request is resolved to is not empty
\* backwards (start <= end) and lies inside the campaign, from its start to
\* its end clamped to today, whatever the year, the range parameters and the
\* current date.
C27_ChillRangeInsideCampaign ==
    (Ok200 /\ response.route = "chill") =>
        /\ response.queryRange.start <= response.queryRange.end
        /\ response.period.start <= response.queryRange.start
        /\ response.queryRange.end <= response.period.end

----------------------------------------------------------------------------
(* SpecConnections: the four endpoints asked for a farm or for one sensor,  *)
(* by known and unknown farm names, with a valid or invalid base            *)
(* temperature or custom range, while one query of a sensor, the listing    *)
(* of the tables or the opening of a connection may fail.                   *)

ConnectionFaults ==
    OneFault \cup { {<<"getSensorsForFarm", "connect">>}, {<<"getSensorsForFarm", "query">>},
                    {<<"GET", "connect">>} }

\* the requests Reqs, each by every farm name of Farms, for the farm and for
\* each sensor of Tables
ReqsBy(Reqs, Farms, Tables) ==
    { [r EXCEPT !.farm = f, !.sensor = s] :
        r \in Reqs, f \in Farms, s \in {<<>>} \cup { <<t>> : t \in Tables } }

FarmNames == {"Casa_Olmo", "Casa_Pino"}

InitConnections == InitWith({0}, {<<>>}, ChillOpening, TodsNoon)

NextConnections ==
    \/ Tick(ChillOpening, TodsNoon)
    \/ StoreReading({"p11"}, {<<50>>}, MaxSensorReadings)
    \/ GetGDD(ReqsBy(GddReqsOf({<<>>}, NumberTexts({72}) \cup NotNumbers, {"custom"},
                               {<<>>, <<ChillOpening>>}, {<<LastDayOf(ChillOpening)>>},
                               ConnectionFaults, {"error"}),
                     FarmNames, {"p11"}))
    \/ GetGDDLegacy(ReqsBy(GddLegacyReqsOf({<<>>}, {<<>>}, ConnectionFaults),
                           FarmNames, {"p11"}))
    \/ GetChill(ReqsBy(ChillReqs({"campaign"}, {<<>>}, {<<>>}, {"fixed"}, {<<>>}, {<<60>>},
                                 ConnectionFaults),
                       FarmNames, {"p11"}))
    \/ GetUtah(ReqsBy(UtahReqs({<<60>>}, {FALSE}, ConnectionFaults), FarmNames, {"p11"}))
    \/ Reply

SpecConnections == InitConnections /\ [][NextConnections]_vars

\* the handler's own connection
OwnConnections == SelectSeq(locals.connections, LAMBDA c : c.by = "GET")

----------------------------------------------------------------------------
(* SpecNull: the chill endpoints, fixed, delta and Utah, and the Utah       *)
(* library over one sensor whose readings may lack a temperature            *)

\* 5.0 degC and no value
TempsOrNull == {<<50>>, <<>>}

InitNull == InitWith({0}, {<<>>}, ChillOpening, TodsUneven)

NextNull ==
    \/ Tick(ChillOpening, TodsUneven)
    \/ StoreReading({"p11"}, TempsOrNull, MaxSensorReadings)
    \/ GetChill(ChillReqs({"campaign"}, {<<>>}, {<<>>}, {"fixed", "delta"},
                          {<<>>}, {<<60>>}, {{}}))
    \/ GetUtah(UtahReqs({<<60>>}, {FALSE, TRUE}, {{}}))
    \/ CallUtahLibrary({"p11"}, {60})
    \/ Reply

SpecNull == InitNull /\ [][NextNull]_vars

\* the readings that carry a temperature
WithTemperature(rows) == { r \in rows : r.temp # <<>> }

\* the days of a sensor's readings in range on which some reading has none
DaysWithNull(s, range) == { DATE(r.dt) : r \in InHalfOpen(s, range) \ WithTemperature(db) }

\* C29: under the fixed, the delta and the Utah model a reading without a
\* temperature adds nothing to the total of its day: the day's total is what
\* the readings of that day that have a temperature add up to.
C29_NullReadingAddsNothing ==
    /\ IsFixedResponse =>
          \A d \in DaysWithNull("p11", response.queryRange) :
              TotalOn(d) = ClaimedFixedHours(WithTemperature(DayRows("p11", d)),
                                             response.sampling.sampleMinutes[1])
    /\ IsDeltaResponse =>
          \A d \in DaysWithNull("p11", response.queryRange) :
              TotalOn(d) = ClaimedDeltaDay("p11", d, response.sampling.maxGapMinutes[1])
    /\ (Ok200 /\ response.route = "utah") =>
          \A d \in DaysWithNull("p11", response.period) :
              LET units == ClaimedUtahUnits(WithTemperature(DayRows("p11", d)),
                                            response.sampling.sampleMinutes)
              IN TotalOn(d) = IF response.allowNegative THEN units ELSE Max2(0, units)
    /\ (Ok200 /\ response.route = "lib.utah") =>
          response.units =
              ClaimedUtahUnits(WithTemperature({ r \in db : r.sensor = request.req.table }),
                               request.req.sampleMinutes)

----------------------------------------------------------------------------
(* SpecWindow: GDD with base 0 over one sensor whose daily values cross 450  *)
(* and 900 within the days observed, on one day or on different days         *)

\* 150, 450 and 900 degC: the daily GDD of a single reading with base 0
TempsCrossing == {<<1500>>, <<4500>>, <<9000>>}

InitWindow == InitWith({0}, {<<>>}, GddOpening, TodsNoon)

NextWindow ==
    \/ Tick(GddOpening, TodsNoon)
    \/ StoreReading({"p11"}, TempsCrossing, MaxDay)
    \/ GetGDD(GddReqs({0}, {<<GddOpening>>}, {<<LastDayOf(GddOpening)>>}, {{}}))
    \/ Reply

SpecWindow == InitWindow /\ [][NextWindow]_vars

\* C30: in a GDD response a milestone is reached exactly when the summary has
\* nothing remaining to its threshold; 900 reached implies 450 reached, on a
\* date not later; and window450_900 tells that 450 is reached and 900 is not.
C30_MilestonesAgreeWithSummary ==
    (Ok200 /\ response.route = "gdd") =>
        LET reached450 == response.milestones.gdd450.reached
            reached900 == response.milestones.gdd900.reached
        IN /\ reached450 <=> response.summary.remainingTo450 = 0
           /\ reached900 <=> response.summary.remainingTo900 = 0
           /\ reached900 =>
                 /\ reached450
                 /\ response.milestones.gdd450.date[1] <= response.milestones.gdd900.date[1]
           /\ response.summary.window450_900 <=> (reached450 /\ ~reached900)

\* C30 witness: 450 crossed on the second day with 600 in total, 900 still
\* 300 away, and the window open
C30_InWindowWithThreeHundredToGo ==
    /\ Ok200 /\ response.route = "gdd"
    /\ Len(response.series) = 2
    /\ response.milestones.gdd450 = [reached |-> TRUE, date |-> <<response.series[2].date>>]
    /\ ~response.milestones.gdd900.reached
    /\ response.summary.totalGDD = 6000
    /\ response.summary.remainingTo450 = 0
    /\ response.summary.remainingTo900 = 3000
    /\ response.summary.window450_900

----------------------------------------------------------------------------
(* SpecOrder: the endpoints over the four sensors of the farm that carry a  *)
(* temperature, each with at most one reading, all of one instant, so that  *)
(* a day's value is merged from up to four sensors                          *)

TablesWithTemperature == {"p11", "p12", "p31", "p42"}

\* 0.1, 0.7, 5.0 and 20.0 degC
TempsOrder == {<<1>>, <<7>>, <<50>>, <<200>>}

InitOrder == InitWith({0}, {<<>>}, ChillOpening + 1, TodsNoon)

NextOrder ==
    \/ StoreReading(TablesWithTemperature, TempsOrder, MaxReadings + 1)
    \/ GetGDD(GddReqs({0}, {<<ChillOpening + 1>>}, {<<ChillOpening + 1>>}, OneFault))
    \/ GetChill(ChillReqs({"campaign"}, {<<>>}, {<<>>}, {"fixed"}, {<<>>}, {<<6>>}, OneFault))
    \/ GetUtah(UtahReqs({<<6>>}, {TRUE}, OneFault))
    \/ Reply

SpecOrder == InitOrder /\ [][NextOrder]_vars

\* the orders a sequence can be put in
Reordered(seq) ==
    { [i \in DOMAIN seq |-> seq[f[i]]] : f \in Permutations(DOMAIN seq) }

\* the series and the average of a response, had the sensors been processed
\* so that their series and results came in the order given
SeriesInOrder(perSensorSeries) ==
    CASE response.route = "gdd"   -> cumulate(seriesDailyMean(perSensorSeries), 0)
      [] response.route = "utah"  -> cumulateUnits(seriesDailyUnitsMean(perSensorSeries), 0)
      [] response.route = "chill" -> cumulateUnits(seriesDailySum(perSensorSeries), 0)

AverageInOrder(results) ==
    LET valid  == IF response.route = "chill"
                  THEN SelectSeq(results, LAMBDA r : r.skippedReason = <<>>)
                  ELSE results
        totals == [i \in DOMAIN valid |->
                     CASE response.route = "gdd"   -> valid[i].gdd
                       [] response.route = "utah"  -> valid[i].chillUnits
                       [] response.route = "chill" -> valid[i].chillHours]
    IN IF Len(valid) > 0 THEN roundedMean(sumDoubles(ToDouble(0), totals), Len(valid)) ELSE 0

AverageReported ==
    CASE response.route = "gdd"   -> response.summary.avgGDD
      [] response.route = "utah"  -> response.summary.avgChillUnits
      [] response.route = "chill" -> response.summary.avgChillHours

\* C25: the merged daily series with its cumulative values and the summary of
\* a Chill or GDD response are the same in whatever order the sensors of the
\* request are processed, also when the query of a sensor fails.
C25_SensorOrderIsImmaterial ==
    (Ok200 /\ response.route \in {"gdd", "utah", "chill"}) =>
        /\ \A series \in Reordered(locals.perSensorSeries) :
              SeriesInOrder(series) = response.series
        /\ \A results \in Reordered(locals.results) :
              AverageInOrder(results) = AverageReported

====
